---- MODULE Spec2Model ----
(***************************************************************************)
(* A model of mintd's versioned data-product lifecycle:                    *)
(*   - enclave_commands.py : pull, package, unpack/verify, clean           *)
(*   - data_import.py      : ImportTransaction, import_data_product        *)
(*   - registry.py         : LocalRegistry.update_project and its diff     *)
(*                                                                         *)
(* Strings that the code slices or concatenates (content hashes, commit    *)
(* ids, dates, version folder names) are sequences of one-character        *)
(* strings, so that hash[:7], date[:10] and str.endswith are computed.     *)
(* A directory is a record [mtime, files, subs]: its modification time,    *)
(* the data it holds directly, and its sub-directories by name.            *)
(***************************************************************************)
EXTENDS Integers, Sequences, FiniteSets, TLC

VARIABLES
    day,        \* the calendar day datetime.now() falls on
    tick,       \* the clock within the run; fresh at every filesystem change
    manifest,   \* enclave -> the content of <enclave>/enclave_manifest.yaml
    staging,    \* enclave -> the repos with a clone under data/staging/
    downloads,  \* enclave -> the directory data/downloads/ (NoDir when absent)
    data,       \* enclave -> the repo directories of data/ (transferred layout)
    archives,   \* <<enclave, name>> -> the archive transfers/<name>.tar.gz
    unpacked,   \* <<enclave, name>> -> the unpacked directory transfers/<name>/
    running,    \* process -> a pull or clean that has read the manifest and
                \* not yet written it, with the manifest it holds in memory
    project,    \* the importing project: metadata.json and imported paths
    txn,        \* an ImportTransaction: its completed and failed lists
    registry,   \* the registry repository on GitHub: catalog, branches, PRs
    descriptor, \* the project's local metadata, as given to update_project
    pending,    \* full name -> the file of ~/.mintd/pending_registrations/
    temps,      \* the mintd-registry-* directories in the temporary directory
    out         \* what the last command was given, printed and returned

enclaveVars == <<manifest, staging, downloads, data, archives, unpacked, running>>
importVars == <<project, txn>>
registryVars == <<registry, descriptor, pending, temps>>
vars == <<day, tick, enclaveVars, importVars, registryVars, out>>

(***************************************************************************)
(* Bounds of the model.                                                    *)
(***************************************************************************)
MaxTick == 4    \* filesystem-changing steps in one behaviour
MaxPulls == 3   \* repos pulled in one behaviour of the pull specification
MaxDay == 2     \* calendar days a behaviour spans
MaxKeep == 2    \* largest keep_recent given to clean_enclave
MaxBundles == 2 \* archives under transfers/ in one behaviour
MaxImports == 3 \* import_data_product calls in one behaviour
MaxSeconds == 1 \* seconds that pass in a behaviour of the registry
MaxEntries == 2 \* versions pulled for a bundle, and entries whose move may fail
MaxStamps == 4  \* timestamps taken in a behaviour of `data import` commands
MaxCallbacks == 2 \* cleanup callbacks registered with one transaction
MaxCalls == 2   \* calls of cleanup callbacks in one behaviour

(***************************************************************************)
(* Strings.                                                                *)
(***************************************************************************)
\* s[:n]
Take(s, n) == SubSeq(s, 1, IF Len(s) < n THEN Len(s) ELSE n)

\* s.endswith(suffix)
EndsWith(s, suffix) ==
    /\ Len(suffix) <= Len(s)
    /\ SubSeq(s, Len(s) - Len(suffix) + 1, Len(s)) = suffix

Digit(n) == <<"0", "1", "2", "3", "4", "5", "6", "7", "8", "9">>[(n % 10) + 1]

\* datetime.now().strftime('%Y-%m-%d') on the given day
DateStr(d) == <<"2", "0", "2", "4", "-", "0", "3", "-", Digit(d \div 10), Digit(d)>>

\* datetime.now().isoformat(): the date, "T", and the time of day
IsoFormat(d, t) == DateStr(d) \o <<"T", Digit(t \div 10), Digit(t)>>

\* f"{dvc_hash[:7]}-{today}"
VersionStrMonthMutant(dvc_hash, date) == Take(dvc_hash, 7) \o <<"-">> \o Take(date, 7)
VersionStr(dvc_hash, date) == Take(dvc_hash, 7) \o <<"-">> \o date

(***************************************************************************)
(* The world outside: enclaves, approved repos, what upstream can serve.   *)
(***************************************************************************)
Enclaves == {"outside", "inside"}
Repos == {"data_alpha", "data_beta"}

\* md5 content hashes of a stage's tracked output; they differ within the
\* first seven characters, as distinct md5 digests are taken to do
Hashes == { <<"1", "1", "1", "1", "1", "1", "1", "a", "f">>,
            <<"1", "1", "1", "1", "1", "1", "2", "a", "f">> }

\* git revisions of the staging clone
Commits == { <<"c", "0", "f", "f", "e", "e", "1", "b", "9">>,
             <<"c", "0", "f", "f", "e", "e", "2", "b", "9">> }

NoDir == [mtime |-> 0, files |-> {}, subs |-> <<>>, exists |-> FALSE]
Dir(t, files, subs) == [mtime |-> t, files |-> files, subs |-> subs, exists |-> TRUE]

\* finite maps
Put(f, k, v) == [x \in (DOMAIN f) \cup {k} |-> IF x = k THEN v ELSE f[x]]
Without(f, K) == [x \in (DOMAIN f) \ K |-> f[x]]

\* what a directory holds, whatever its modification times
RECURSIVE Content(_)
Content(d) == [files |-> d.files,
               subs |-> [n \in DOMAIN d.subs |-> Content(d.subs[n])]]

(***************************************************************************)
(* pull_enclave_data                                                       *)
(***************************************************************************)
\* What the registry, git and dvc do for one repo of a pull: the registry has
\* no entry, the clone or refresh fails, the dvc pull fails, or the staging
\* clone ends at `commit` with the stage's data; `tracked` says whether
\* data/<stage>.dvc exists (its md5 is `hash`, and data/<stage>/ was pulled)
\* or not (everything was pulled, and the hash falls back on the commit).
Failure(res) == [res |-> res, tracked |-> FALSE,
                 hash |-> <<>>, commit |-> <<>>]
Served(tracked, hash, commit) ==
    [res |-> "ok", tracked |-> tracked, hash |-> hash, commit |-> commit]
Hash1 == CHOOSE h \in Hashes : h[7] = "1"
Hash2 == CHOOSE h \in Hashes : h[7] = "2"
Commit1 == CHOOSE c \in Commits : c[7] = "1"
Commit2 == CHOOSE c \in Commits : c[7] = "2"
\* the upstream histories a behaviour meets: data and commit change, the
\* commit alone changes, the stage has no .dvc file
Outcomes ==
    { Failure(r) : r \in {"registry_miss", "clone_fail", "dvc_fail"} }
    \cup { Served(TRUE, Hash1, Commit1), Served(TRUE, Hash2, Commit2),
           Served(TRUE, Hash1, Commit2), Served(FALSE, <<>>, Commit1) }

\* get_dvc_hash: the md5 of the stage's .dvc file, else commit_hash[:7]
GetDvcHash(o) == IF o.tracked THEN o.hash ELSE Take(o.commit, 7)

\* The data a successful pull leaves in the staging clone: data/<stage>/
\* when the stage is tracked, else the whole data/ directory.
StagedFile(o, stage) ==
    IF o.tracked THEN [under |-> stage, bytes |-> o.hash]
    ELSE [under |-> "data", bytes |-> Take(o.commit, 7)]

\* copy_to_downloads: mkdir -p data/downloads/<repo>/<version>, then replace
\* <version>/<stage> (or <version>/data) by a copy of the staged directory.
\* Creating an entry in a directory sets that directory's mtime.
CopyToDownloads(dl, repo, version, file, t) ==
    LET root == IF dl.exists THEN dl ELSE Dir(t, {}, <<>>)
        hadRepo == repo \in DOMAIN root.subs
        repoDir == IF hadRepo THEN root.subs[repo] ELSE Dir(t, {}, <<>>)
        hadVer == version \in DOMAIN repoDir.subs
        verDir == IF hadVer THEN repoDir.subs[version] ELSE Dir(t, {}, <<>>)
        newVer == Dir(t, {f \in verDir.files : f.under # file.under} \cup {file},
                      verDir.subs)
        newRepo == Dir(IF hadVer THEN repoDir.mtime ELSE t, repoDir.files,
                       Put(repoDir.subs, version, newVer))
    IN  Dir(IF hadRepo THEN root.mtime ELSE t, root.files,
            Put(root.subs, repo, newRepo))

DownloadsPath(repo, version) ==
    [base |-> "data/downloads", repo |-> repo, name |-> version]

\* the first index whose record has the key, 0 when none has
FirstMatch(records, repo, dvc_hash) ==
    LET hits == {i \in 1..Len(records) :
                    records[i].repo = repo /\ records[i].dvc_hash = dvc_hash}
    IN  IF hits = {} THEN 0 ELSE CHOOSE i \in hits : \A j \in hits : i <= j

\* lines 215-234: update the record of (repo, dvc_hash), or append one
UpsertDownloadedNoKeyMutant(downloaded, rec) == Append(downloaded, rec)
UpsertDownloaded(downloaded, rec) ==
    LET i == FirstMatch(downloaded, rec.repo, rec.dvc_hash)
    IN  IF i # 0
        THEN [downloaded EXCEPT ![i] =
                [@ EXCEPT !.git_commit = rec.git_commit,
                          !.downloaded_at = rec.downloaded_at,
                          !.local_path = rec.local_path]]
        ELSE Append(downloaded, rec)

\* One pass of the loop of lines 191-234 on `item`, from the loop state st:
\* the manifest in memory, the staging clones, data/downloads/, the clock,
\* what was printed, and whether an exception has ended the loop.
PullItem(st, item, o, d) ==
    IF st.raised THEN st
    ELSE IF o.res \in {"registry_miss", "clone_fail"}
    THEN [st EXCEPT !.raised = TRUE]
    ELSE IF o.res = "dvc_fail"
    THEN [st EXCEPT !.raised = TRUE, !.stg = @ \cup {item.repo}]
    ELSE
    LET dvc_hash == GetDvcHash(o)
        version_str == VersionStr(dvc_hash, DateStr(d))
        t == st.t + 1
        i == FirstMatch(st.m.transferred, item.repo, dvc_hash)
        rec == [repo |-> item.repo, dvc_hash |-> dvc_hash,
                git_commit |-> o.commit,
                downloaded_at |-> IsoFormat(d, t),
                local_path |-> DownloadsPath(item.repo, version_str)]
    IN  [m |-> [st.m EXCEPT !.downloaded = UpsertDownloaded(@, rec)],
         stg |-> st.stg \cup {item.repo},
         dl |-> CopyToDownloads(st.dl, item.repo, version_str,
                                StagedFile(o, item.stage), t),
         t |-> t,
         warnings |-> IF i = 0 THEN st.warnings
                      ELSE st.warnings \cup
                           {[kind |-> "already_transferred", repo |-> item.repo,
                             hash7 |-> Take(dvc_hash, 7),
                             ref |-> st.m.transferred[i].transfer_date]},
         raised |-> FALSE]

RECURSIVE PullLoop(_, _, _, _)
PullLoop(st, targets, outs, d) ==
    IF targets = <<>> THEN st
    ELSE PullLoop(PullItem(st, Head(targets), Head(outs), d),
                  Tail(targets), Tail(outs), d)

\* lines 177-189: the approved products a call is about; ok is FALSE for
\* the ValueError
PullTargets(approved, target) ==
    IF target = "--all" THEN [ok |-> TRUE, items |-> approved]
    ELSE IF target \in Repos
    THEN LET hit == SelectSeq(approved, LAMBDA item : item.repo = target)
         IN  [ok |-> hit # <<>>, items |-> hit]
    ELSE [ok |-> Len(approved) = 1, items |-> approved]

\* pull_enclave_data(enclave_path, repo_name, pull_all); it writes the
\* manifest once, after the loop, so not at all when the loop raised.
\* FileNotFoundError when the enclave has no manifest.
PullEnclaveData(e, target, outs) ==
    LET missing == e \notin DOMAIN manifest
        approved == manifest[e].approved_products
        targets == PullTargets(approved, target)
        st0 == [m |-> manifest[e], stg |-> staging[e], dl |-> downloads[e],
                t |-> tick, warnings |-> {}, raised |-> FALSE]
    IN  IF missing \/ approved = <<>> \/ ~targets.ok
        THEN /\ Len(outs) = 1
             /\ out' = [op |-> "pull", enclave |-> e, target |-> target,
                        served |-> <<>>, warnings |-> {},
                        raised |-> missing \/ approved # <<>>]
             /\ UNCHANGED <<day, tick, manifest, staging, downloads, data,
                            archives, unpacked>>
        ELSE /\ Len(outs) = Len(targets.items)
             /\ LET st == PullLoop(st0, targets.items, outs, day)
                IN  /\ st.t <= MaxTick
                    /\ manifest' = IF st.raised THEN manifest
                                   ELSE [manifest EXCEPT ![e] = st.m]
                    /\ staging' = [staging EXCEPT ![e] = st.stg]
                    /\ downloads' = [downloads EXCEPT ![e] = st.dl]
                    /\ tick' = st.t
                    /\ out' = [op |-> "pull", enclave |-> e, target |-> target,
                               served |-> [k \in 1..Len(outs) |->
                                   [repo |-> targets.items[k].repo,
                                    ok |-> outs[k].res = "ok",
                                    dvc_hash |-> GetDvcHash(outs[k])]],
                               warnings |-> st.warnings,
                               raised |-> st.raised]
             /\ UNCHANGED <<day, data, archives, unpacked>>

(***************************************************************************)
(* package_transfer                                                        *)
(***************************************************************************)
GivenNames == { <<"t", "-", "1">> }
NoName == <<>>

\* f"transfer-{datetime.now().strftime('%Y-%m-%d-%H%M%S')}"
DefaultName(d, t) ==
    <<"t", "r", "a", "n", "s", "f", "e", "r", "-">> \o DateStr(d)
        \o <<"-", Digit(t \div 10), Digit(t)>>

\* the directory at enclave_path / local_path, NoDir when there is none
LookupDir(dl, dat, path) ==
    IF path.base = "data/downloads"
    THEN IF dl.exists /\ path.repo \in DOMAIN dl.subs
            /\ path.name \in DOMAIN dl.subs[path.repo].subs
         THEN dl.subs[path.repo].subs[path.name] ELSE NoDir
    ELSE IF path.repo \in DOMAIN dat /\ path.name \in DOMAIN dat[path.repo].subs
         THEN dat[path.repo].subs[path.name] ELSE NoDir

\* One pass of the loop of lines 269-292 on a DownloadRecord: a record whose
\* directory is not on disk is passed over without a word.
PackageItem(st, item, m, dl, dat) ==
    LET dir == LookupDir(dl, dat, item.local_path)
        i == FirstMatch(m.transferred, item.repo, item.dvc_hash)
        already_id == IF i = 0 THEN <<>> ELSE m.transferred[i].transfer_id
        version_folder == item.local_path.name
    IN  IF ~dir.exists THEN st
        ELSE [members |-> st.members \o
                  <<[repo |-> item.repo, version |-> version_folder, dir |-> dir]>>,
              contents |-> Append(st.contents,
                  [repo |-> item.repo, version_folder |-> version_folder,
                   dvc_hash |-> item.dvc_hash, git_commit |-> item.git_commit]),
              warnings |-> IF already_id = <<>> THEN st.warnings
                           ELSE st.warnings \cup
                                {[kind |-> "already_transferred_via",
                                  repo |-> item.repo,
                                  hash7 |-> Take(item.dvc_hash, 7),
                                  ref |-> already_id]}]

RECURSIVE PackageLoop(_, _, _, _, _)
PackageLoop(st, items, m, dl, dat) ==
    IF items = <<>> THEN st
    ELSE PackageLoop(PackageItem(st, Head(items), m, dl, dat),
                     Tail(items), m, dl, dat)

PackageTransferMarksMutant(e, name_arg) ==
    LET m == manifest[e]
        name == IF name_arg = NoName THEN DefaultName(day, tick) ELSE name_arg
        st == PackageLoop([members |-> <<>>, contents |-> <<>>, warnings |-> {}],
                          m.downloaded, m, downloads[e], data[e])
    IN  /\ e \in DOMAIN manifest
        /\ m.downloaded # <<>>
        /\ archives' = Put(archives, <<e, name>>,
                           [members |-> st.members,
                            manifest |-> [enclave_name |-> m.enclave_name,
                                          transfer_date |-> IsoFormat(day, tick),
                                          transfer_id |-> name,
                                          contents |-> st.contents]])
        /\ manifest' = [manifest EXCEPT ![e].downloaded = <<>>]
        /\ out' = [op |-> "package", enclave |-> e, name |-> name_arg,
                   warnings |-> st.warnings, raised |-> FALSE,
                   returned |-> <<e, name>>]
        /\ UNCHANGED <<day, tick, staging, downloads, data, unpacked>>

\* package_transfer(enclave_path, name): reads the manifest, writes
\* transfers/<name>.tar.gz (the versions, then _transfer_manifest.yaml) and
\* returns its path; ValueError when nothing was downloaded, and
\* FileNotFoundError when the enclave has no manifest to open.
PackageTransfer(e, name_arg) ==
    LET m == manifest[e]
        name == IF name_arg = NoName THEN DefaultName(day, tick) ELSE name_arg
        st == PackageLoop([members |-> <<>>, contents |-> <<>>, warnings |-> {}],
                          m.downloaded, m, downloads[e], data[e])
        transfer_manifest == [enclave_name |-> m.enclave_name,
                              transfer_date |-> IsoFormat(day, tick),
                              transfer_id |-> name,
                              contents |-> st.contents]
    IN  /\ IF e \notin DOMAIN manifest \/ m.downloaded = <<>>
           THEN /\ archives' = archives
                /\ out' = [op |-> "package", enclave |-> e, name |-> name_arg,
                           warnings |-> {}, raised |-> TRUE, returned |-> <<>>]
           ELSE /\ archives' = Put(archives, <<e, name>>,
                                   [members |-> st.members,
                                    manifest |-> transfer_manifest])
                /\ out' = [op |-> "package", enclave |-> e, name |-> name_arg,
                           warnings |-> st.warnings, raised |-> FALSE,
                           returned |-> <<e, name>>]
        /\ UNCHANGED <<day, tick, manifest, staging, downloads, data, unpacked>>

(***************************************************************************)
(* unpack_transfer and verify_transfer                                     *)
(***************************************************************************)
\* the last member of the archive with the given name, 0 when there is none
LastMember(members, repo, version) ==
    LET hits == {i \in 1..Len(members) :
                    members[i].repo = repo /\ members[i].version = version}
    IN  IF hits = {} THEN 0 ELSE CHOOSE i \in hits : \A j \in hits : i >= j

\* tar.extractall into a new directory: <repo>/<version>/ for every member,
\* each with the mtime the archive recorded; a <repo>/ directory that is no
\* member itself is made at the time of extraction.
Extract(members, t) ==
    LET repos == {members[i].repo : i \in 1..Len(members)}
        versions(r) == {members[i].version : i \in
                            {j \in 1..Len(members) : members[j].repo = r}} \ {<<>>}
        flat(r) == LastMember(members, r, <<>>)
        top(r) == IF flat(r) = 0 THEN Dir(t, {}, <<>>) ELSE members[flat(r)].dir
    IN  [r \in repos |->
            Dir(top(r).mtime, top(r).files,
                [v \in versions(r) |-> members[LastMember(members, r, v)].dir])]

DataPath(repo, version) == [base |-> "data", repo |-> repo, name |-> version]

\* lines 376-394: update the record of (repo, dvc_hash), or append one
UpsertTransferredNoKeyMutant(transferred, rec) == Append(transferred, rec)
UpsertTransferred(transferred, rec) ==
    LET i == FirstMatch(transferred, rec.repo, rec.dvc_hash)
    IN  IF i # 0
        THEN [transferred EXCEPT ![i] =
                [@ EXCEPT !.transfer_date = rec.transfer_date,
                          !.transfer_id = rec.transfer_id,
                          !.local_path = rec.local_path]]
        ELSE Append(transferred, rec)

\* _transfer_manifest.yaml is among the files of a bundle
HasManifest(bundle) == "manifest" \in DOMAIN bundle

\* transfer_file.parent / f"tmp_{transfer_file.stem}": the stem of
\* <name>.tar.gz is <name>.tar
TempName(name) == <<"t", "m", "p", "_">> \o name \o <<".", "t", "a", "r">>

\* tar.extractall over a directory that may hold things already: every
\* extracted file takes the place of the one of its name
Overlay(old, new) ==
    Dir(new.mtime,
        {f \in old.files : \A g \in new.files : g.under # f.under} \cup new.files,
        [v \in (DOMAIN old.subs) \cup (DOMAIN new.subs) |->
            IF v \notin DOMAIN new.subs THEN old.subs[v]
            ELSE IF v \notin DOMAIN old.subs THEN new.subs[v]
            ELSE Dir(new.subs[v].mtime,
                     {f \in old.subs[v].files :
                         \A g \in new.subs[v].files : g.under # f.under}
                         \cup new.subs[v].files,
                     new.subs[v].subs)])

\* The directory unpack_transfer(transfer_file) leaves and returns: made
\* beside the archive if need be (exist_ok), with the members extracted.
Unpacked(bundle, t) ==
    LET archive == archives[bundle]
        dest_dir == <<bundle[1], TempName(bundle[2])>>
        there == dest_dir \in DOMAIN unpacked
        new == Extract(archive.members, t)
        old == IF there THEN unpacked[dest_dir].tdir ELSE <<>>
        tdir == [r \in (DOMAIN old) \cup (DOMAIN new) |->
                    IF r \notin DOMAIN new THEN old[r]
                    ELSE IF r \notin DOMAIN old THEN new[r]
                    ELSE Overlay(old[r], new[r])]
    IN  IF HasManifest(archive)
        THEN [tdir |-> tdir, manifest |-> archive.manifest]
        ELSE IF there /\ HasManifest(unpacked[dest_dir])
        THEN [tdir |-> tdir, manifest |-> unpacked[dest_dir].manifest]
        ELSE [tdir |-> tdir]

\* unpack_transfer(transfer_file), as `enclave unpack` runs it
UnpackTransfer(bundle) ==
    /\ unpacked' = Put(unpacked, <<bundle[1], TempName(bundle[2])>>,
                       Unpacked(bundle, tick))
    /\ out' = [op |-> "unpack", bundle |-> bundle,
               returned |-> <<bundle[1], TempName(bundle[2])>>]
    /\ UNCHANGED <<day, tick, manifest, staging, downloads, data, archives>>

\* One pass of the loop of lines 354-394 on an entry of the transfer
\* manifest. st holds the extracted bundle, the enclave's data/, the
\* manifest in memory and whether an exception has ended the loop. The data
\* is taken from <repo>/<version>/ of the bundle or, when that is absent,
\* from <repo>/ as a whole, and moved (a rename: the directory keeps its
\* mtime) over whatever data/<repo>/<version>/ held. When shutil.move
\* raises (`fails`), data/<repo>/ has been made and the old
\* data/<repo>/<version>/ removed already.
VerifyItem(st, content, transfer_manifest, t, fails) ==
    LET repo_name == content.repo
        transfer_date == Take(transfer_manifest.transfer_date, 10)
        version_folder == IF content.version_folder # <<>>
                          THEN content.version_folder
                          ELSE VersionStr(content.dvc_hash, transfer_date)
        hasRepo == repo_name \in DOMAIN st.tdir
        versioned == hasRepo /\ version_folder \in DOMAIN st.tdir[repo_name].subs
        src == IF versioned THEN st.tdir[repo_name].subs[version_folder]
               ELSE IF hasRepo THEN st.tdir[repo_name] ELSE NoDir
        hadRepo == repo_name \in DOMAIN st.dat
        destRepo == IF hadRepo THEN st.dat[repo_name] ELSE Dir(t, {}, <<>>)
        cleared == IF version_folder \in DOMAIN destRepo.subs
                   THEN Dir(t, destRepo.files,
                            Without(destRepo.subs, {version_folder}))
                   ELSE destRepo
        rec == [repo |-> repo_name, dvc_hash |-> content.dvc_hash,
                git_commit |-> content.git_commit,
                transfer_date |-> transfer_date,
                transfer_id |-> transfer_manifest.transfer_id,
                local_path |-> DataPath(repo_name, version_folder)]
    IN  IF st.raised \/ ~src.exists THEN st
        ELSE IF fails
        THEN [st EXCEPT !.raised = TRUE, !.dat = Put(st.dat, repo_name, cleared)]
        ELSE [tdir |-> IF versioned
                       THEN [st.tdir EXCEPT ![repo_name] =
                                Dir(t, @.files, Without(@.subs, {version_folder}))]
                       ELSE Without(st.tdir, {repo_name}),
              dat |-> Put(st.dat, repo_name,
                          Dir(t, destRepo.files,
                              Put(destRepo.subs, version_folder, src))),
              m |-> [st.m EXCEPT !.transferred = UpsertTransferred(@, rec)],
              moved |-> Append(st.moved, rec),
              raised |-> FALSE]

\* the loop; the move of entry number fail_at raises (none when 0)
RECURSIVE VerifyLoop(_, _, _, _, _)
VerifyLoop(st, contents, transfer_manifest, t, fail_at) ==
    IF contents = <<>> THEN st
    ELSE VerifyLoop(VerifyItem(st, Head(contents), transfer_manifest, t,
                               fail_at = 1),
                    Tail(contents), transfer_manifest, t, fail_at - 1)

VerifyTransferMovesUnlistedMutant(e, kind, bundle, fail_at) ==
    LET t == tick + 1
        transfer_dir == IF kind = "archive" THEN Unpacked(bundle, t)
                        ELSE unpacked[bundle]
    IN  /\ t <= MaxTick
        /\ ~HasManifest(transfer_dir)
        /\ tick' = t
        /\ data' = [data EXCEPT ![e] =
                        [r \in (DOMAIN data[e]) \cup (DOMAIN transfer_dir.tdir) |->
                            IF r \in DOMAIN transfer_dir.tdir
                            THEN transfer_dir.tdir[r] ELSE data[e][r]]]
        /\ out' = [op |-> "verify", enclave |-> e, kind |-> kind,
                   bundle |-> bundle, fail_at |-> fail_at, raised |-> TRUE,
                   error |-> "Transfer manifest not found", returned |-> FALSE]
        /\ UNCHANGED <<day, manifest, staging, downloads, archives, unpacked>>

\* verify_transfer(transfer_path, enclave_path). An archive (kind) is
\* unpacked beside itself into temp_dir, a directory is used as it is. Every
\* listed version is moved into data/, the enclave manifest is written, the
\* temp_dir removed, True returned. FileNotFoundError when the bundle has no
\* _transfer_manifest.yaml (temp_dir is removed first) or the enclave has no
\* manifest; an exception of a move leaves the function then and there.
VerifyTransfer(e, kind, bundle, fail_at) ==
    LET t == tick + 1
        temp_dir == <<bundle[1], TempName(bundle[2])>>
        at == IF kind = "archive" THEN temp_dir ELSE bundle
        transfer_dir == IF kind = "archive" THEN Unpacked(bundle, t)
                        ELSE unpacked[bundle]
        st == VerifyLoop([tdir |-> transfer_dir.tdir, dat |-> data[e],
                          m |-> manifest[e], moved |-> <<>>, raised |-> FALSE],
                         transfer_dir.manifest.contents, transfer_dir.manifest,
                         t, fail_at)
        report(error, returned) ==
            out' = [op |-> "verify", enclave |-> e, kind |-> kind,
                    bundle |-> bundle, fail_at |-> fail_at,
                    raised |-> error # "", error |-> error,
                    returned |-> returned]
    IN  /\ t <= MaxTick
        /\ IF ~HasManifest(transfer_dir)
           THEN /\ unpacked' = IF kind = "archive"
                               THEN Without(unpacked, {temp_dir}) ELSE unpacked
                /\ report("Transfer manifest not found", FALSE)
                /\ UNCHANGED <<tick, data, manifest>>
           ELSE IF e \notin DOMAIN manifest
           THEN /\ unpacked' = Put(unpacked, at, transfer_dir)
                /\ report("Enclave manifest not found", FALSE)
                /\ UNCHANGED <<tick, data, manifest>>
           ELSE /\ tick' = IF st.dat = data[e] THEN tick ELSE t
                /\ data' = [data EXCEPT ![e] = st.dat]
                /\ manifest' = IF st.raised THEN manifest
                               ELSE [manifest EXCEPT ![e] = st.m]
                /\ unpacked' = IF kind = "archive" /\ ~st.raised
                               THEN Without(unpacked, {temp_dir})
                               ELSE Put(unpacked, at,
                                        [transfer_dir EXCEPT !.tdir = st.tdir])
                /\ report(IF st.raised THEN "shutil.Error" ELSE "", ~st.raised)
        /\ UNCHANGED <<day, staging, downloads, archives>>

(***************************************************************************)
(* clean_enclave                                                           *)
(***************************************************************************)
\* versions[keep_recent:] of the sub-directories sorted by st_mtime, newest
\* first: those with keep_recent or more newer siblings
ToDelete(dir, keep_recent) ==
    {v \in DOMAIN dir.subs :
        Cardinality({w \in DOMAIN dir.subs :
                        dir.subs[w].mtime > dir.subs[v].mtime}) >= keep_recent}

\* shutil.rmtree of the sub-directories named
Prune(dir, gone, t) ==
    IF gone = {} THEN dir ELSE Dir(t, dir.files, Without(dir.subs, gone))

\* lines 455-460 for the versions `gone` deleted under a directory named repo
DropEntries(section, repo, gone) ==
    SelectSeq(section, LAMBDA item :
        ~(item.repo = repo /\ \E v \in gone : EndsWith(item.local_path.name, v)))

RECURSIVE DropAll(_, _, _)
DropAll(section, repos, gone) ==
    IF repos = {} THEN section
    ELSE LET r == CHOOSE x \in repos : TRUE
         IN  DropAll(DropEntries(section, r, gone[r]), repos \ {r}, gone)

CleanEnclaveManifestFirstMutant(e, keep_recent, staging_only) ==
    /\ staging' = IF e \in DOMAIN manifest THEN [staging EXCEPT ![e] = {}]
                  ELSE staging
    /\ out' = [op |-> "clean", enclave |-> e, keep_recent |-> keep_recent,
               staging_only |-> staging_only, raised |-> FALSE]
    /\ UNCHANGED <<day, tick, manifest, downloads, data, archives, unpacked>>

\* clean_enclave(enclave_path, keep_recent, staging_only). Staging clones
\* always go; that is all for a staging-only call and for an enclave
\* without a manifest. Then every directory under data/ other than staging/ is
\* taken for a repo and pruned to its keep_recent newest sub-directories:
\* that covers downloads/ itself, whose sub-directories are the downloaded
\* repos; the manifest filter for those looks for records of a repo named
\* "downloads" and finds none. Then every directory under data/downloads/
\* is pruned the same way.
CleanEnclave(e, keep_recent, staging_only) ==
    LET t == tick + 1
        dat == data[e]
        dl == downloads[e]
        goneData == [r \in DOMAIN dat |-> ToDelete(dat[r], keep_recent)]
        dat1 == [r \in DOMAIN dat |-> Prune(dat[r], goneData[r], t)]
        goneRepos == IF dl.exists THEN ToDelete(dl, keep_recent) ELSE {}
        dl1 == Prune(dl, goneRepos, t)
        goneDl == [r \in DOMAIN dl1.subs |-> ToDelete(dl1.subs[r], keep_recent)]
        dl2 == Dir(dl1.mtime, dl1.files,
                   [r \in DOMAIN dl1.subs |-> Prune(dl1.subs[r], goneDl[r], t)])
        m == manifest[e]
        step1(section) == DropAll(section, DOMAIN dat, goneData)
        step2(section) == DropAll(step1(section), DOMAIN dl1.subs, goneDl)
        done == staging_only \/ e \notin DOMAIN manifest
    IN  /\ t <= MaxTick
        /\ tick' = IF staging[e] = {} /\ (done \/ (dat1 = dat /\ dl2 = dl))
                   THEN tick ELSE t
        /\ staging' = [staging EXCEPT ![e] = {}]
        /\ IF done
           THEN UNCHANGED <<manifest, downloads, data>>
           ELSE /\ data' = [data EXCEPT ![e] = dat1]
                /\ downloads' = [downloads EXCEPT ![e] =
                                    IF dl.exists THEN dl2 ELSE dl]
                /\ manifest' = [manifest EXCEPT ![e] =
                                  [m EXCEPT !.downloaded = step2(@),
                                            !.transferred = step2(@)]]
        /\ out' = [op |-> "clean", enclave |-> e, keep_recent |-> keep_recent,
                   staging_only |-> staging_only, raised |-> FALSE]
        /\ UNCHANGED <<day, archives, unpacked>>

(***************************************************************************)
(* Two commands at a time on one enclave. A command is cut at its read of  *)
(* enclave_manifest.yaml: what it does before the read is one step, what   *)
(* it does after it, up to and with its write of the file, is another.     *)
(***************************************************************************)
Procs == {"p1", "p2"}

\* pull_enclave_data, lines 165-189, in process p: the manifest is loaded
\* (169-170) and the targets are chosen from it
BeginPull(p, e, target) ==
    /\ p \notin DOMAIN running
    /\ e \in DOMAIN manifest
    /\ manifest[e].approved_products # <<>>
    /\ PullTargets(manifest[e].approved_products, target).ok
    /\ running' = Put(running, p, [op |-> "pull", enclave |-> e, target |-> target,
                                   keep_recent |-> 0, manifest |-> manifest[e]])
    /\ out' = [op |-> "begin", process |-> p]
    /\ UNCHANGED <<day, tick, manifest, staging, downloads, data, archives,
                   unpacked>>

FinishPullRereadsMutant(p, outs) ==
    LET e == running[p].enclave
        targets == PullTargets(running[p].manifest.approved_products,
                               running[p].target)
        st0 == [m |-> manifest[e], stg |-> staging[e],
                dl |-> downloads[e], t |-> tick, warnings |-> {},
                raised |-> FALSE]
        st == PullLoop(st0, targets.items, outs, day)
    IN  /\ p \in DOMAIN running /\ running[p].op = "pull"
        /\ Len(outs) = Len(targets.items)
        /\ st.t <= MaxTick
        /\ manifest' = IF st.raised THEN manifest
                       ELSE [manifest EXCEPT ![e] = st.m]
        /\ staging' = [staging EXCEPT ![e] = st.stg]
        /\ downloads' = [downloads EXCEPT ![e] = st.dl]
        /\ tick' = st.t
        /\ running' = Without(running, {p})
        /\ out' = [op |-> "pull", enclave |-> e, target |-> running[p].target,
                   served |-> [k \in 1..Len(outs) |->
                       [repo |-> targets.items[k].repo,
                        ok |-> outs[k].res = "ok",
                        dvc_hash |-> GetDvcHash(outs[k])]],
                   warnings |-> st.warnings, raised |-> st.raised,
                   process |-> p]
        /\ UNCHANGED <<day, data, archives, unpacked>>

\* pull_enclave_data, lines 191-237, in process p: the loop over the
\* targets changes the directories as they are now and the manifest as p
\* loaded it; `open(manifest_path, 'w')` and yaml.dump then replace the file
\* by the manifest in memory
FinishPull(p, outs) ==
    LET e == running[p].enclave
        targets == PullTargets(running[p].manifest.approved_products,
                               running[p].target)
        st0 == [m |-> running[p].manifest, stg |-> staging[e],
                dl |-> downloads[e], t |-> tick, warnings |-> {},
                raised |-> FALSE]
        st == PullLoop(st0, targets.items, outs, day)
    IN  /\ p \in DOMAIN running /\ running[p].op = "pull"
        /\ Len(outs) = Len(targets.items)
        /\ st.t <= MaxTick
        /\ manifest' = IF st.raised THEN manifest
                       ELSE [manifest EXCEPT ![e] = st.m]
        /\ staging' = [staging EXCEPT ![e] = st.stg]
        /\ downloads' = [downloads EXCEPT ![e] = st.dl]
        /\ tick' = st.t
        /\ running' = Without(running, {p})
        /\ out' = [op |-> "pull", enclave |-> e, target |-> running[p].target,
                   served |-> [k \in 1..Len(outs) |->
                       [repo |-> targets.items[k].repo,
                        ok |-> outs[k].res = "ok",
                        dvc_hash |-> GetDvcHash(outs[k])]],
                   warnings |-> st.warnings, raised |-> st.raised,
                   process |-> p]
        /\ UNCHANGED <<day, data, archives, unpacked>>

\* clean_enclave without --staging-only, lines 406-428, in process p: the
\* staging clones go, then the manifest is loaded (427-428)
BeginClean(p, e, keep_recent) ==
    LET t == IF staging[e] = {} THEN tick ELSE tick + 1
    IN  /\ p \notin DOMAIN running
        /\ e \in DOMAIN manifest
        /\ t <= MaxTick
        /\ tick' = t
        /\ staging' = [staging EXCEPT ![e] = {}]
        /\ running' = Put(running, p, [op |-> "clean", enclave |-> e, target |-> "",
                                       keep_recent |-> keep_recent,
                                       manifest |-> manifest[e]])
        /\ out' = [op |-> "begin", process |-> p]
        /\ UNCHANGED <<day, manifest, downloads, data, archives, unpacked>>

\* clean_enclave, lines 430-463, in process p: the directories as they are
\* now are pruned, the records of what went are taken out of the manifest
\* as p loaded it, and that manifest replaces the file
FinishClean(p) ==
    LET e == running[p].enclave
        keep_recent == running[p].keep_recent
        t == tick + 1
        dat == data[e]
        dl == downloads[e]
        goneData == [r \in DOMAIN dat |-> ToDelete(dat[r], keep_recent)]
        dat1 == [r \in DOMAIN dat |-> Prune(dat[r], goneData[r], t)]
        goneRepos == IF dl.exists THEN ToDelete(dl, keep_recent) ELSE {}
        dl1 == Prune(dl, goneRepos, t)
        goneDl == [r \in DOMAIN dl1.subs |-> ToDelete(dl1.subs[r], keep_recent)]
        dl2 == Dir(dl1.mtime, dl1.files,
                   [r \in DOMAIN dl1.subs |-> Prune(dl1.subs[r], goneDl[r], t)])
        m == running[p].manifest
        step1(section) == DropAll(section, DOMAIN dat, goneData)
        step2(section) == DropAll(step1(section), DOMAIN dl1.subs, goneDl)
    IN  /\ p \in DOMAIN running /\ running[p].op = "clean"
        /\ t <= MaxTick
        /\ tick' = IF dat1 = dat /\ dl2 = dl THEN tick ELSE t
        /\ data' = [data EXCEPT ![e] = dat1]
        /\ downloads' = [downloads EXCEPT ![e] = IF dl.exists THEN dl2 ELSE dl]
        /\ manifest' = [manifest EXCEPT ![e] =
                          [m EXCEPT !.downloaded = step2(@),
                                    !.transferred = step2(@)]]
        /\ running' = Without(running, {p})
        /\ out' = [op |-> "clean", enclave |-> e, keep_recent |-> keep_recent,
                   staging_only |-> FALSE, raised |-> FALSE, process |-> p]
        /\ UNCHANGED <<day, staging, archives, unpacked>>

(***************************************************************************)
(* data_import.py                                                          *)
(***************************************************************************)
StartsWith(s, prefix) ==
    Len(prefix) <= Len(s) /\ SubSeq(s, 1, Len(prefix)) = prefix

\* s.replace(sub, "")
RECURSIVE Remove(_, _)
Remove(s, sub) ==
    IF s = <<>> THEN <<>>
    ELSE IF StartsWith(s, sub) THEN Remove(SubSeq(s, Len(sub) + 1, Len(s)), sub)
    ELSE <<Head(s)>> \o Remove(Tail(s), sub)

Products == { <<"d", "a", "t", "a", "_", "a">>, <<"d", "a", "t", "a", "_", "b">> }
NoStage == ""
NoPath == <<>>
NoRev == ""
NoFile == [root |-> "", name |-> <<>>, ext |-> ""]

\* What the registry and dvc do for one import: all goes well, the registry
\* query fails, the entry has no repository section, dvc import fails, or
\* metadata.json cannot be rewritten afterwards.
ImportEnvs == {"ok", "registry_fail", "no_repository", "dvc_fail", "meta_fail"}

NoException == [kind |-> "none", msg |-> ""]
Exception(kind, msg) == [kind |-> kind, msg |-> msg]

\* `except Exception` of import_data_product: every class raised in the body
\* is an Exception
CaughtImportErrorsOnlyMutant(kind) ==
    kind \in {"DataImportError", "RegistryError", "DVCImportError",
              "MetadataUpdateError"}
Caught(kind) ==
    kind \in {"DataImportError", "RegistryError", "DVCImportError",
              "MetadataUpdateError", "KeyError"}

\* validate_project_directory
ValidateProjectDirectory(proj) ==
    IF ~proj.exists
    THEN Exception("DataImportError", "Not a mintd project directory")
    ELSE IF proj.type \notin {"project", "infra"}
    THEN Exception("DataImportError", "Invalid project metadata")
    ELSE NoException

\* The first exception of the body of import_data_product, in the order of
\* its statements: validation, registry query, the stage/path check, the
\* github_url lookup, dvc import.
ImportFailure(proj, stage, path, env) ==
    IF ValidateProjectDirectory(proj).kind # "none"
    THEN ValidateProjectDirectory(proj)
    ELSE IF env = "registry_fail"
    THEN Exception("RegistryError", "Failed to query registry")
    ELSE IF stage # NoStage /\ path # NoPath
    THEN Exception("DataImportError", "Cannot specify both --stage and --path")
    ELSE IF env = "no_repository" THEN Exception("KeyError", "'repository'")
    ELSE IF env = "dvc_fail" THEN Exception("DVCImportError", "DVC import failed")
    ELSE NoException

\* dest: data/imports/<product without "data_">/ for a stage, else the path
DefaultDest(product_name, stage, path) ==
    IF stage # NoStage
    THEN [root |-> "data/imports", name |-> Remove(product_name, <<"d", "a", "t", "a", "_">>),
          ext |-> "/"]
    ELSE [root |-> "", name |-> path, ext |-> ""]

\* run_dvc_import's return: the destination without its slash, with ".dvc"
DvcFile(dest) == [dest EXCEPT !.ext = ".dvc"]

UpdateProjectMetadataAppendMutant(proj, import_result, github_url, now) ==
    [proj EXCEPT !.has_deps = TRUE,
                 !.deps = Append(IF proj.has_deps THEN proj.deps ELSE <<>>,
                                 [source |-> import_result.product_name,
                                  source_url |-> github_url,
                                  stage |-> "", path |-> "",
                                  local_path |-> import_result.local_path,
                                  dvc_file |-> import_result.dvc_file,
                                  imported_at |-> now,
                                  source_commit |-> import_result.source_commit])]

\* update_project_metadata: the dependency entry of the result replaces the
\* first entry with its source and local_path, or is appended
UpdateProjectMetadata(proj, import_result, github_url, now) ==
    LET dependency == [source |-> import_result.product_name,
                       source_url |-> github_url,
                       stage |-> "", path |-> "",
                       local_path |-> import_result.local_path,
                       dvc_file |-> import_result.dvc_file,
                       imported_at |-> now,
                       source_commit |-> import_result.source_commit]
        dependencies == IF proj.has_deps THEN proj.deps ELSE <<>>
        hits == {i \in 1..Len(dependencies) :
                    /\ dependencies[i].source = import_result.product_name
                    /\ dependencies[i].local_path = import_result.local_path}
        existing_index == IF hits = {} THEN 0
                          ELSE CHOOSE i \in hits : \A j \in hits : i <= j
    IN  [proj EXCEPT !.has_deps = TRUE,
                     !.deps = IF existing_index # 0
                              THEN [dependencies EXCEPT ![existing_index] = dependency]
                              ELSE Append(dependencies, dependency)]

ImportedMetadataFatalMutant(proj, product_name, stage, path, repo_rev, env, now) ==
    LET exc == ImportFailure(proj, stage, path, env)
        stage1 == IF stage = NoStage /\ path = NoPath THEN "final" ELSE stage
        dest == DefaultDest(product_name, stage1, path)
        made == exc.kind \in {"none", "KeyError", "DVCImportError"}
        result == IF exc.kind = "none" /\ env # "meta_fail"
                  THEN [product_name |-> product_name, success |-> TRUE,
                        error_message |-> "", dvc_file |-> DvcFile(dest),
                        local_path |-> dest,
                        source_commit |-> IF repo_rev # NoRev THEN repo_rev ELSE "HEAD"]
                  ELSE [product_name |-> product_name, success |-> FALSE,
                        error_message |-> exc.msg, dvc_file |-> NoFile,
                        local_path |-> NoFile, source_commit |-> ""]
        proj1 == [proj EXCEPT !.dirs = IF made THEN @ \cup {dest} ELSE @]
        proj2 == IF exc.kind = "none" /\ env # "meta_fail"
                 THEN UpdateProjectMetadata(proj1, result, product_name, now)
                 ELSE proj1
    IN  [project |-> proj2, result |-> result,
         raised |-> exc.kind # "none" /\ ~Caught(exc.kind),
         warnings |-> IF exc.kind = "none" /\ env = "meta_fail"
                      THEN {"Failed to update metadata"} ELSE {}]

\* What import_data_product(product_name, project_path, stage, path,
\* repo_rev) makes of the project directory and returns, at the time `now`
Imported(proj, product_name, stage, path, repo_rev, env, now) ==
    LET exc == ImportFailure(proj, stage, path, env)
        stage1 == IF stage = NoStage /\ path = NoPath THEN "final" ELSE stage
        dest == DefaultDest(product_name, stage1, path)
        made == exc.kind \in {"none", "KeyError", "DVCImportError"}
        result == IF exc.kind = "none"
                  THEN [product_name |-> product_name, success |-> TRUE,
                        error_message |-> "", dvc_file |-> DvcFile(dest),
                        local_path |-> dest,
                        source_commit |-> IF repo_rev # NoRev THEN repo_rev ELSE "HEAD"]
                  ELSE [product_name |-> product_name, success |-> FALSE,
                        error_message |-> exc.msg, dvc_file |-> NoFile,
                        local_path |-> NoFile, source_commit |-> ""]
        proj1 == [proj EXCEPT !.dirs = IF made THEN @ \cup {dest} ELSE @]
        proj2 == IF exc.kind = "none" /\ env # "meta_fail"
                 THEN UpdateProjectMetadata(proj1, result, product_name, now)
                 ELSE proj1
    IN  [project |-> proj2, result |-> result,
         raised |-> exc.kind # "none" /\ ~Caught(exc.kind),
         warnings |-> IF exc.kind = "none" /\ env = "meta_fail"
                      THEN {"Failed to update metadata"} ELSE {}]

\* import_data_product(product_name, project_path, stage, path, repo_rev)
ImportDataProduct(product_name, stage, path, repo_rev, env) ==
    LET r == Imported(project, product_name, stage, path, repo_rev, env,
                      IsoFormat(day, tick + 1))
    IN  /\ tick < MaxImports
        /\ tick' = tick + 1
        /\ project' = r.project
        /\ out' = [op |-> "import", product_name |-> product_name,
                   stage |-> stage, path |-> path, env |-> env,
                   result |-> r.result,
                   raised |-> r.raised,
                   warnings |-> r.warnings]
        /\ UNCHANGED <<day, txn, enclaveVars, registryVars>>

\* `mintd data import`: --stage with --source-path aborts at once; else
\* import_data_product, and after a success the registry is queried again
\* (env2) and update_project_metadata called a second time; a failure of
\* that is a warning, a failed import aborts.
DataImport(product_name, stage, source_path, rev, env, env2) ==
    LET both == stage # NoStage /\ source_path # NoPath
        r == Imported(project, product_name, stage, source_path, rev, env,
                      IsoFormat(day, tick + 1))
        again == r.result.success /\ env2 = "ok" /\ env # "meta_fail"
    IN  /\ tick + 2 <= MaxStamps
        /\ tick' = tick + 2
        /\ project' = IF both THEN project
                      ELSE IF again
                      THEN UpdateProjectMetadata(r.project, r.result, product_name,
                                                 IsoFormat(day, tick + 2))
                      ELSE r.project
        /\ out' = [op |-> "data import", product_name |-> product_name,
                   stage |-> stage, path |-> source_path, env |-> env,
                   env2 |-> env2,
                   result |-> r.result,
                   updated |-> IF both \/ ~r.result.success THEN 0
                               ELSE IF env = "meta_fail" THEN 0
                               ELSE IF env2 = "ok" THEN 2 ELSE 1,
                   aborted |-> both \/ ~r.result.success]
        /\ UNCHANGED <<day, txn, enclaveVars, registryVars>>

\* ImportTransaction.add_success and add_failure
AddSuccess(result) ==
    /\ txn' = [txn EXCEPT !.completed = Append(@, result)]
    /\ out' = [op |-> "add_success"]
    /\ UNCHANGED <<day, tick, project, enclaveVars, registryVars>>
AddFailure(result) ==
    /\ txn' = [txn EXCEPT !.failed = Append(@, result)]
    /\ out' = [op |-> "add_failure"]
    /\ UNCHANGED <<day, tick, project, enclaveVars, registryVars>>

\* A dict display: the keys are set in the order written, so a key written
\* twice holds the later value.
RECURSIVE DictDisplay(_)
DictDisplay(pairs) ==
    IF pairs = <<>> THEN <<>>
    ELSE Put(DictDisplay(SubSeq(pairs, 1, Len(pairs) - 1)),
             pairs[Len(pairs)][1], pairs[Len(pairs)][2])

IntValue(n) == [type |-> "int", n |-> n, items |-> <<>>]
ListValue(items) == [type |-> "list", n |-> 0, items |-> items]

\* ImportTransaction.get_summary
GetSummary(t) ==
    DictDisplay(<< <<"total", IntValue(Len(t.completed) + Len(t.failed))>>,
                   <<"successful", IntValue(Len(t.completed))>>,
                   <<"failed", IntValue(Len(t.failed))>>,
                   <<"completed", ListValue(t.completed)>>,
                   <<"failed", ListValue(t.failed)>> >>)

ReadSummary ==
    /\ out' = [op |-> "get_summary", summary |-> GetSummary(txn)]
    /\ UNCHANGED <<day, tick, project, txn, enclaveVars, registryVars>>

\* <project>/.mintd/import_state.json: absent, or a JSON text; `valid` is
\* whether json.load can parse it
NoStateFile == [exists |-> FALSE]
NewTransaction == [completed |-> <<>>, failed |-> <<>>, rollback_actions |-> <<>>]

\* json.dump and json.load of the values of an ImportResult dict: a bool is
\* written as true or false, None (error_message "" and the file NoFile in
\* the model) as null, a str as a string
JsonBool(b) == [t |-> IF b THEN "true" ELSE "false"]
JsonOptional(v, none) == IF v = none THEN [t |-> "null"] ELSE [t |-> "string", s |-> v]
JsonResult(d) ==
    [product_name |-> [t |-> "string", s |-> d.product_name],
     success |-> JsonBool(d.success),
     error_message |-> JsonOptional(d.error_message, ""),
     dvc_file |-> JsonOptional(d.dvc_file, NoFile),
     local_path |-> JsonOptional(d.local_path, NoFile),
     source_commit |-> JsonOptional(d.source_commit, "")]
PyOptional(j, none) == IF j.t = "null" THEN none ELSE j.s
PyResult(j) ==
    [product_name |-> j.product_name.s,
     success |-> j.success.t = "true",
     error_message |-> PyOptional(j.error_message, ""),
     dvc_file |-> PyOptional(j.dvc_file, NoFile),
     local_path |-> PyOptional(j.local_path, NoFile),
     source_commit |-> PyOptional(j.source_commit, "")]

\* ImportTransaction.save_state: .mintd/ is made and the state written over
\* whatever the file held
SaveState ==
    /\ project' = [project EXCEPT !.state_file =
            [exists |-> TRUE, valid |-> TRUE,
             state |-> [started_at |-> IsoFormat(day, tick),
                        completed |-> [i \in 1..Len(txn.completed) |->
                                          JsonResult(txn.completed[i])],
                        failed |-> [i \in 1..Len(txn.failed) |->
                                       JsonResult(txn.failed[i])],
                        rollback_actions_count |-> Len(txn.rollback_actions)]]]
    /\ out' = [op |-> "save_state", completed |-> txn.completed,
               failed |-> txn.failed]
    /\ UNCHANGED <<day, tick, txn, enclaveVars, registryVars>>

\* the process is killed while json.dump writes: the file is there, cut
\* short, and the transaction object is gone
InterruptSave ==
    /\ project' = [project EXCEPT !.state_file = [exists |-> TRUE, valid |-> FALSE]]
    /\ txn' = NewTransaction
    /\ out' = [op |-> "killed"]
    /\ UNCHANGED <<day, tick, enclaveVars, registryVars>>

\* the lists load_state takes from the parsed state
LoadedCompletedOnlyMutant(state) ==
    [completed |-> [i \in 1..Len(state.completed) |-> PyResult(state.completed[i])],
     failed |-> <<>>]
Loaded(state) ==
    [completed |-> [i \in 1..Len(state.completed) |-> PyResult(state.completed[i])],
     failed |-> [i \in 1..Len(state.failed) |-> PyResult(state.failed[i])]]

\* ImportTransaction.load_state, on this transaction or (fresh) on a new
\* ImportTransaction(project_path): False without a file and on a file that
\* does not parse, else the lists are replaced and True returned
LoadState(fresh) ==
    LET self == IF fresh THEN NewTransaction ELSE txn
        file == project.state_file
        loads == file.exists /\ file.valid
    IN  /\ txn' = IF loads
                  THEN [self EXCEPT !.completed = Loaded(file.state).completed,
                                    !.failed = Loaded(file.state).failed]
                  ELSE self
        /\ out' = [op |-> "load_state", fresh |-> fresh, returned |-> loads]
        /\ UNCHANGED <<day, tick, project, enclaveVars, registryVars>>

\* A cleanup callback given to add_rollback_action: what it is called and
\* whether calling it raises. project.undone lists the calls made of
\* callbacks, in the order they were made.
Callbacks == {[name |-> "rm_a", raises |-> FALSE], [name |-> "boom", raises |-> TRUE]}

\* ImportTransaction.add_rollback_action
AddRollbackAction(action) ==
    /\ Len(txn.rollback_actions) < MaxCallbacks
    /\ txn' = [txn EXCEPT !.rollback_actions = Append(@, action)]
    /\ out' = [op |-> "add_rollback_action"]
    /\ UNCHANGED <<day, tick, project, enclaveVars, registryVars>>

Reversed(seq) == [i \in 1..Len(seq) |-> seq[Len(seq) + 1 - i]]

\* the loop of rollback over reversed(self.rollback_actions): each action
\* is called, and an exception of it is printed as a warning
RECURSIVE RunRollbackStopsMutant(_, _)
RunRollbackStopsMutant(st, actions) ==
    IF actions = <<>> \/ st.warnings # <<>> THEN st
    ELSE RunRollbackStopsMutant(
            [undone |-> Append(st.undone, Head(actions)),
             warnings |-> IF Head(actions).raises
                          THEN Append(st.warnings, Head(actions).name)
                          ELSE st.warnings],
            Tail(actions))
RECURSIVE RunRollback(_, _)
RunRollback(st, actions) ==
    IF actions = <<>> THEN st
    ELSE RunRollback(
            [undone |-> Append(st.undone, Head(actions)),
             warnings |-> IF Head(actions).raises
                          THEN Append(st.warnings, Head(actions).name)
                          ELSE st.warnings],
            Tail(actions))

\* ImportTransaction.rollback: the list of actions is left as it is
Rollback ==
    LET st == RunRollback([undone |-> project.undone, warnings |-> <<>>],
                          Reversed(txn.rollback_actions))
    IN  /\ Len(project.undone) + Len(txn.rollback_actions) <= MaxCalls
        /\ project' = [project EXCEPT !.undone = st.undone]
        /\ out' = [op |-> "rollback", warnings |-> st.warnings, raised |-> FALSE]
        /\ UNCHANGED <<day, tick, txn, enclaveVars, registryVars>>

\* ImportTransaction.cleanup_state
CleanupState ==
    /\ project' = [project EXCEPT !.state_file = NoStateFile]
    /\ out' = [op |-> "cleanup_state"]
    /\ UNCHANGED <<day, tick, txn, enclaveVars, registryVars>>

(***************************************************************************)
(* registry.py                                                             *)
(***************************************************************************)
\* The values of a descriptor: a string, None, or a dict of values by key.
StrValue(s) == [type |-> "str", s |-> s, d |-> <<>>]
NoneValue == [type |-> "none", s |-> <<>>, d |-> <<>>]
DictValue(d) == [type |-> "dict", s |-> <<>>, d |-> d]

\* dict.get(key)
Get(d, key) == IF key \in DOMAIN d THEN d[key] ELSE NoneValue

\* _compute_metadata_diff(old, new, prefix): the changed leaves
RECURSIVE ComputeMetadataDiff(_, _, _)
ComputeMetadataDiffIdentityMutant(old, new, prefix) ==
    {[key |-> prefix \o <<key>>, old |-> Get(old, key), new |-> Get(new, key)] :
        key \in (DOMAIN old) \cup (DOMAIN new)}
ComputeMetadataDiff(old, new, prefix) ==
    LET all_keys == (DOMAIN old) \cup (DOMAIN new)
        changed(key) ==
            LET full_key == prefix \o <<key>>
                old_val == Get(old, key)
                new_val == Get(new, key)
            IN  IF old_val = new_val THEN {}
                ELSE IF old_val.type = "dict" /\ new_val.type = "dict"
                THEN ComputeMetadataDiff(old_val.d, new_val.d, full_key)
                ELSE {[key |-> full_key, old |-> old_val, new |-> new_val]}
    IN  UNION {changed(key) : key \in all_keys}

ProjectNames == {"alpha", "omega"}
MergedKeys == {"project", "metadata", "ownership", "access_control",
               "repository", "storage"}

\* f"update-{project_name}-{timestamp}", the timestamp to the second
BranchName(project_name, d, t) == [project |-> project_name, stamp |-> IsoFormat(d, t)]
NoBranch == [project |-> "", stamp |-> <<>>]

\* lines 449-459: the existing entry with the local sections laid over it
\* and status.last_updated set to now
UpdatedEntry(existing_entry, local_metadata, now) ==
    LET over == (DOMAIN local_metadata) \cap MergedKeys
        merged == [key \in (DOMAIN existing_entry) \cup over |->
                      IF key \in over THEN local_metadata[key]
                      ELSE existing_entry[key]]
        status == IF "status" \in DOMAIN merged THEN merged["status"].d ELSE <<>>
    IN  Put(merged, "status",
            DictValue(Put(status, "last_updated", StrValue(now \o <<"Z">>))))

\* self.temp_dir of a client that has not cloned yet (None)
NoTemp == 0

\* tempfile.mkdtemp(prefix="mintd-registry-"): a directory that tmp, the
\* directories there are, does not hold yet
MkDTemp(tmp) == CHOOSE d \in 1..(Cardinality(tmp) + 1) : d \notin tmp

CloneRegistryAssignsLateMutant(tmp, env) ==
    LET d == MkDTemp(tmp)
    IN  [temp_dir |-> IF env = "clone_fail" THEN NoTemp ELSE d,
         temps |-> tmp \cup {d},
         raised |-> env = "clone_fail"]

\* LocalRegistry._clone_registry: the directory is made and kept in
\* self.temp_dir, then git clones into it, which may raise
CloneRegistry(tmp, env) ==
    LET d == MkDTemp(tmp)
    IN  [temp_dir |-> d,
         temps |-> tmp \cup {d},
         raised |-> env = "clone_fail"]

\* the finally clause of every operation:
\* `if self.temp_dir and self.temp_dir.exists(): shutil.rmtree(self.temp_dir)`
RemoveTemp(tmp, temp_dir) ==
    IF temp_dir # NoTemp /\ temp_dir \in tmp THEN tmp \ {temp_dir} ELSE tmp

\* What git and gh do for one update: all goes well, the clone fails, the
\* push fails, or gh cannot open the pull request.
UpdateEnvs == {"ok", "clone_fail", "push_fail", "pr_fail"}

UpdateProjectDryRunWritesMutant(project_name, local_metadata, dry_run, env) ==
    LET found == project_name \in DOMAIN registry.main
        existing_entry == registry.main[project_name]
        changes == ComputeMetadataDiff(existing_entry, local_metadata, <<>>)
        branch_name == BranchName(project_name, day, tick)
        updated_entry == UpdatedEntry(existing_entry, local_metadata,
                                      IsoFormat(day, tick))
        rejected == env = "push_fail" \/ branch_name \in DOMAIN registry.branches
        clone == CloneRegistry(temps, env)
        report(steps, changed, raised, returned) ==
            out' = [op |-> "update", project_name |-> project_name,
                    dry_run |-> dry_run, env |-> env, steps |-> steps,
                    changes |-> changed, raised |-> raised, returned |-> returned,
                    temp_dir |-> clone.temp_dir]
    IN  /\ temps' = RemoveTemp(clone.temps, clone.temp_dir)
        /\ IF clone.raised
           THEN /\ report(<<>>, {}, "GitError", NoBranch)
                /\ registry' = registry
           ELSE IF ~found
           THEN /\ report(<<"clone">>, {}, "RegistryNotFoundError", NoBranch)
                /\ registry' = registry
           ELSE IF changes = {}
           THEN /\ report(<<"clone">>, changes, "", NoBranch)
                /\ registry' = registry
           ELSE IF rejected
           THEN /\ report(<<"clone", "branch", "write", "commit">>, changes,
                          "GitError", NoBranch)
                /\ registry' = registry
           ELSE /\ registry' =
                     [registry EXCEPT
                        !.branches = Put(@, branch_name,
                                         [project |-> project_name,
                                          entry |-> updated_entry]),
                        !.prs = IF env = "pr_fail" THEN @
                                ELSE @ \cup {[head |-> branch_name,
                                             title |-> project_name,
                                             changes |-> changes]}]
                /\ IF env = "pr_fail"
                   THEN report(<<"clone", "branch", "write", "commit", "push">>,
                               changes, "RegistryError", NoBranch)
                   ELSE report(<<"clone", "branch", "write", "commit", "push", "pr">>,
                               changes, "", branch_name)
        /\ UNCHANGED <<day, tick, descriptor, pending, enclaveVars, importVars>>

\* LocalRegistry.update_project(project_name, local_metadata, dry_run). The
\* clone lives in a temporary directory that the finally clause removes;
\* `steps` lists what was done in it and to the remote.
UpdateProject(project_name, local_metadata, dry_run, env) ==
    LET found == project_name \in DOMAIN registry.main
        existing_entry == registry.main[project_name]
        changes == ComputeMetadataDiff(existing_entry, local_metadata, <<>>)
        branch_name == BranchName(project_name, day, tick)
        updated_entry == UpdatedEntry(existing_entry, local_metadata,
                                      IsoFormat(day, tick))
        rejected == env = "push_fail" \/ branch_name \in DOMAIN registry.branches
        clone == CloneRegistry(temps, env)
        report(steps, changed, raised, returned) ==
            out' = [op |-> "update", project_name |-> project_name,
                    dry_run |-> dry_run, env |-> env, steps |-> steps,
                    changes |-> changed, raised |-> raised, returned |-> returned,
                    temp_dir |-> clone.temp_dir]
    IN  /\ temps' = RemoveTemp(clone.temps, clone.temp_dir)
        /\ IF clone.raised
           THEN /\ report(<<>>, {}, "GitError", NoBranch)
                /\ registry' = registry
           ELSE IF ~found
           THEN /\ report(<<"clone">>, {}, "RegistryNotFoundError", NoBranch)
                /\ registry' = registry
           ELSE IF changes = {} \/ dry_run
           THEN /\ report(<<"clone">>, changes, "", NoBranch)
                /\ registry' = registry
           ELSE IF rejected
           THEN /\ report(<<"clone", "branch", "write", "commit">>, changes,
                          "GitError", NoBranch)
                /\ registry' = registry
           ELSE /\ registry' =
                     [registry EXCEPT
                        !.branches = Put(@, branch_name,
                                         [project |-> project_name,
                                          entry |-> updated_entry]),
                        !.prs = IF env = "pr_fail" THEN @
                                ELSE @ \cup {[head |-> branch_name,
                                             title |-> project_name,
                                             changes |-> changes]}]
                /\ IF env = "pr_fail"
                   THEN report(<<"clone", "branch", "write", "commit", "push">>,
                               changes, "RegistryError", NoBranch)
                   ELSE report(<<"clone", "branch", "write", "commit", "push", "pr">>,
                               changes, "", branch_name)
        /\ UNCHANGED <<day, tick, descriptor, pending, enclaveVars, importVars>>

\* The metadata.json of a registered project, as load_project_metadata
\* returns it: the description is absent, null or set.
Versions == { <<"v", "1">>, <<"v", "2">> }
Descriptions == {"absent", "null", "set"}
Descriptor(version, description) ==
    [project |-> DictValue([name |-> StrValue(<<"a">>), type |-> StrValue(<<"d">>)]),
     metadata |-> DictValue(
        IF description = "absent" THEN [version |-> StrValue(version)]
        ELSE [version |-> StrValue(version),
              description |-> IF description = "null" THEN NoneValue
                              ELSE StrValue(<<"t">>)])]

\* the owner edits metadata.json
EditDescriptor(version, description) ==
    /\ descriptor' = Descriptor(version, description)
    /\ descriptor' # descriptor
    /\ out' = [op |-> "edit"]
    /\ UNCHANGED <<day, tick, registry, pending, temps, enclaveVars, importVars>>

\* the owner adds a top-level section to metadata.json, or takes it out
SectionValue == DictValue([state |-> StrValue(<<"a">>)])
EditSection(key, present) ==
    /\ descriptor' = IF present THEN Put(descriptor, key, SectionValue)
                     ELSE Without(descriptor, {key})
    /\ descriptor' # descriptor
    /\ out' = [op |-> "edit"]
    /\ UNCHANGED <<day, tick, registry, pending, temps, enclaveVars, importVars>>

\* a registry administrator merges a pull request: the entry of its branch
\* becomes the catalog entry on main
MergePullRequest(pr) ==
    LET branch == registry.branches[pr.head]
    IN  /\ pr \in registry.prs
        /\ branch.project \in DOMAIN registry.main
        /\ registry.main[branch.project] # branch.entry
        /\ registry' = [registry EXCEPT !.main = Put(@, branch.project, branch.entry)]
        /\ out' = [op |-> "merge", head |-> pr.head]
        /\ UNCHANGED <<day, tick, descriptor, pending, temps, enclaveVars, importVars>>

\* the clock moves on by a second
Second ==
    /\ tick < MaxSeconds
    /\ tick' = tick + 1
    /\ out' = [op |-> "second"]
    /\ UNCHANGED <<day, registryVars, enclaveVars, importVars>>

\* f"register-{project_name}"
RegisterBranch(project_name) ==
    [project |-> project_name, stamp |-> <<"r", "e", "g", "i", "s", "t", "e", "r">>]

\* LocalRegistry.register_project(metadata) against the registry reg: the
\* clone, the branch register-<name>, the entry, commit and push, then the
\* pull request; a push of a branch the remote already has is rejected.
Registered(reg, tmp, metadata, env) ==
    LET project_name == metadata.project.full_name
        clone == CloneRegistry(tmp, env)
        left == RemoveTemp(clone.temps, clone.temp_dir)
        branch_name == RegisterBranch(project_name)
        rejected == env = "push_fail" \/ branch_name \in DOMAIN reg.branches
        pushed == [reg EXCEPT !.branches = Put(@, branch_name,
                                               [project |-> project_name,
                                                entry |-> metadata])]
    IN  IF clone.raised \/ rejected
        THEN [registry |-> reg, raised |-> "GitError", pr_url |-> NoBranch,
              temp_dir |-> clone.temp_dir, temps |-> left]
        ELSE IF env = "pr_fail"
        THEN [registry |-> pushed, raised |-> "RegistryError", pr_url |-> NoBranch,
              temp_dir |-> clone.temp_dir, temps |-> left]
        ELSE [registry |-> [pushed EXCEPT !.prs = @ \cup {[head |-> branch_name,
                                                          title |-> project_name,
                                                          changes |-> {}]}],
              raised |-> "", pr_url |-> branch_name,
              temp_dir |-> clone.temp_dir, temps |-> left]

\* What load_project_metadata finds in a project directory: a metadata.json
\* that passes its checks, none (FileNotFoundError), or one that does not
\* pass (ValueError)
MetadataStates == {"valid", "missing", "invalid"}
Metadata(full_name) == [project |-> [full_name |-> full_name]]

\* save_pending_registration: <full_name>.json is written, over an older one
SavePendingRegistration(pend, full_name, metadata, now) ==
    Put(pend, full_name, [project_path |-> full_name, metadata |-> metadata,
                          created_at |-> now])

\* The end of create_project(register_project=True) for the project
\* full_name: _register_project loads the metadata and registers; on any
\* exception it loads the metadata again and saves a pending registration,
\* and an exception of that is passed over (`except Exception: pass`); home
\* is whether ~/.mintd/pending_registrations can be written.
RegisterProject(full_name, meta, env, home) ==
    LET loaded == meta = "valid"
        r == Registered(registry, temps, Metadata(full_name), env)
        failed == ~loaded \/ r.raised # ""
        saved == failed /\ loaded /\ home = "ok"
    IN  /\ registry' = IF loaded THEN r.registry ELSE registry
        /\ temps' = IF loaded THEN r.temps ELSE temps
        /\ pending' = IF saved
                      THEN SavePendingRegistration(pending, full_name,
                                                   Metadata(full_name),
                                                   IsoFormat(day, tick))
                      ELSE pending
        /\ out' = [op |-> "create", full_name |-> full_name, meta |-> meta,
                   env |-> env, home |-> home, raised |-> FALSE,
                   temp_dir |-> IF loaded THEN r.temp_dir ELSE NoTemp,
                   registration_url |-> IF failed THEN NoBranch ELSE r.pr_url]
        /\ UNCHANGED <<day, tick, descriptor, enclaveVars, importVars>>

\* The loop of `mintd registry sync` over the pending items in the order
\* glob gives them: register, and clear the pending file after a success
RECURSIVE SyncLoop(_, _, _)
SyncLoop(st, items, envs) ==
    IF items = <<>> THEN st
    ELSE LET project_name == Head(items)
             r == Registered(st.registry, st.temps,
                             st.pending[project_name].metadata,
                             envs[project_name])
         IN  SyncLoop(IF r.raised = ""
                      THEN [registry |-> r.registry, temps |-> r.temps,
                            pending |-> Without(st.pending, {project_name}),
                            successful |-> st.successful \cup {project_name},
                            failed |-> st.failed]
                      ELSE [registry |-> r.registry, temps |-> r.temps,
                            pending |-> st.pending,
                            successful |-> st.successful,
                            failed |-> st.failed \cup {project_name}],
                      Tail(items), envs)

\* `mintd registry sync`
Sync(items, envs) ==
    LET st == SyncLoop([registry |-> registry, temps |-> temps,
                        pending |-> pending,
                        successful |-> {}, failed |-> {}], items, envs)
    IN  /\ registry' = st.registry
        /\ temps' = st.temps
        /\ pending' = st.pending
        /\ out' = [op |-> "sync", items |-> items, envs |-> envs,
                   successful |-> st.successful, failed |-> st.failed]
        /\ UNCHANGED <<day, tick, descriptor, enclaveVars, importVars>>

\* What git and gh do for a query: all goes well, the clone fails, or gh
\* cannot list the pull requests.
QueryEnvs == {"ok", "clone_fail", "gh_fail"}

\* LocalRegistry.check_registration_status(project_name): the catalog of the
\* clone is looked through, then the open pull requests; a failure of gh is
\* passed over.
CheckRegistrationStatus(project_name, env) ==
    LET clone == CloneRegistry(temps, env)
        waiting == env # "gh_fail" /\
                   \E pr \in registry.prs : pr.head = RegisterBranch(project_name)
        report(raised, status) ==
            out' = [op |-> "status", project_name |-> project_name, env |-> env,
                    raised |-> raised, returned |-> status,
                    temp_dir |-> clone.temp_dir]
    IN  /\ temps' = RemoveTemp(clone.temps, clone.temp_dir)
        /\ IF clone.raised THEN report("GitError", "")
           ELSE IF project_name \in DOMAIN registry.main THEN report("", "registered")
           ELSE IF waiting THEN report("", "pending_review")
           ELSE report("", "not_found")
        /\ UNCHANGED <<day, tick, registry, descriptor, pending, enclaveVars,
                       importVars>>

\* LocalRegistry.query_data_product(product_name): the catalog entry of the
\* clone, or FileNotFoundError
QueryDataProduct(product_name, env) ==
    LET clone == CloneRegistry(temps, env)
        report(raised, entry) ==
            out' = [op |-> "query", product_name |-> product_name, env |-> env,
                    raised |-> raised, returned |-> entry,
                    temp_dir |-> clone.temp_dir]
    IN  /\ temps' = RemoveTemp(clone.temps, clone.temp_dir)
        /\ IF clone.raised THEN report("GitError", <<>>)
           ELSE IF product_name \notin DOMAIN registry.main
           THEN report("FileNotFoundError", <<>>)
           ELSE report("", registry.main[product_name])
        /\ UNCHANGED <<day, tick, registry, descriptor, pending, enclaveVars,
                       importVars>>

\* LocalRegistry.list_data_products(): the names in the catalog of the clone
ListDataProducts(env) ==
    LET clone == CloneRegistry(temps, env)
        report(raised, names) ==
            out' = [op |-> "list", env |-> env, raised |-> raised,
                    returned |-> names, temp_dir |-> clone.temp_dir]
    IN  /\ temps' = RemoveTemp(clone.temps, clone.temp_dir)
        /\ IF clone.raised THEN report("GitError", {})
           ELSE report("", DOMAIN registry.main)
        /\ UNCHANGED <<day, tick, registry, descriptor, pending, enclaveVars,
                       importVars>>

(***************************************************************************)
(* The enclave workflow.                                                   *)
(***************************************************************************)
\* the calendar moves on between commands
NextDay ==
    /\ day < MaxDay
    /\ day' = day + 1
    /\ out' = [op |-> "midnight"]
    /\ UNCHANGED <<tick, enclaveVars, importVars, registryVars>>

\* `enclave add` has approved both data products for either workspace
InitManifest(e) ==
    [enclave_name |-> e,
     approved_products |->
        << [repo |-> "data_alpha", registry_entry |-> "catalog/data/data_alpha.yaml",
            stage |-> "final"],
           [repo |-> "data_beta", registry_entry |-> "catalog/data/data_beta.yaml",
            stage |-> "final"] >>,
     downloaded |-> <<>>,
     transferred |-> <<>>]

ValidProject == [exists |-> TRUE, type |-> "project", has_deps |-> FALSE,
                 deps |-> <<>>, dirs |-> {}, state_file |-> NoStateFile,
                 undone |-> <<>>]

InitEnclaves ==
    /\ day = 1
    /\ tick = 0
    /\ manifest = [e \in Enclaves |-> InitManifest(e)]
    /\ staging = [e \in Enclaves |-> {}]
    /\ downloads = [e \in Enclaves |-> NoDir]
    /\ data = [e \in Enclaves |-> <<>>]
    /\ archives = <<>>
    /\ unpacked = <<>>
    /\ running = <<>>
    /\ out = [op |-> "init"]

\* the project "alpha" is registered with the descriptor it has
InitRegistry ==
    /\ registry = [main |-> [p \in {"alpha"} |-> Descriptor(<<"v", "1">>, "absent")],
                   branches |-> <<>>, prs |-> {}]
    /\ descriptor = Descriptor(<<"v", "1">>, "absent")
    /\ pending = <<>>
    /\ temps = {}

Init ==
    /\ InitEnclaves
    /\ project = ValidProject
    /\ txn = NewTransaction
    /\ InitRegistry

\* The commands of the workflow, over the inputs a specification gives them.
Pull(E, Targets, Batch, Single) ==
    /\ \E e \in E, target \in Targets :
        \/ \E o \in Single : PullEnclaveData(e, target, <<o>>)
        \/ \E o1 \in Batch, o2 \in Batch : PullEnclaveData(e, target, <<o1, o2>>)
    /\ UNCHANGED <<importVars, registryVars, running>>
Package(E, Names) ==
    /\ \E e \in E, name \in Names : PackageTransfer(e, name)
    /\ UNCHANGED <<importVars, registryVars, running>>
Verify(E) ==
    /\ \E e \in E, bundle \in DOMAIN archives :
            VerifyTransfer(e, "archive", bundle, 0)
    /\ UNCHANGED <<importVars, registryVars, running>>
Clean(E, Keeps, Flags) ==
    /\ \E e \in E, keep_recent \in Keeps, staging_only \in Flags :
        CleanEnclave(e, keep_recent, staging_only)
    /\ UNCHANGED <<importVars, registryVars, running>>

\* An archive made by a release of package_transfer that wrote <repo>/ flat
\* and listed no version_folder, brought into transfers/; verify_transfer
\* keeps a fallback for such manifests (lines 354-366).
LegacyName == <<"o", "l", "d">>
ReceiveLegacyBundle(e, repo, dvc_hash, commit) ==
    /\ <<e, LegacyName>> \notin DOMAIN archives
    /\ archives' = Put(archives, <<e, LegacyName>>,
            [members |-> << [repo |-> repo, version |-> <<>>,
                             dir |-> Dir(0, {[under |-> "final", bytes |-> dvc_hash]},
                                         <<>>)] >>,
             manifest |-> [enclave_name |-> e,
                           transfer_date |-> IsoFormat(day, tick),
                           transfer_id |-> LegacyName,
                           contents |-> << [repo |-> repo, version_folder |-> <<>>,
                                            dvc_hash |-> dvc_hash,
                                            git_commit |-> commit] >>]])
    /\ out' = [op |-> "receive", enclave |-> e]
    /\ UNCHANGED <<day, tick, manifest, staging, downloads, data, unpacked>>
    /\ UNCHANGED <<importVars, registryVars, running>>

TwoVersions == {Served(TRUE, Hash1, Commit1), Served(TRUE, Hash2, Commit2)}

\* Pulls in the outside workspace: one repo or all approved ones, against
\* every outcome, over the days.
PullOne ==
    /\ Pull({"outside"}, {"--one"} \cup Repos, {},
            Outcomes \ {Served(FALSE, <<>>, Commit1)})
    /\ tick' <= MaxPulls
PullAll ==
    /\ Pull({"outside"}, {"--all"},
            {Failure("registry_miss"), Failure("dvc_fail"),
             Served(TRUE, Hash1, Commit1)}, {})
    /\ tick' <= MaxPulls
Midnight == NextDay
NextPull == PullOne \/ PullAll \/ Midnight
SpecPull == Init /\ [][NextPull]_vars

\* One workspace that pulls, packages, verifies its own bundles and cleans.
FlowPull == Pull({"outside"}, Repos, {}, TwoVersions) /\ tick' <= MaxTick
FlowPackage ==
    /\ Package({"outside"}, GivenNames \cup {NoName})
    /\ Cardinality(DOMAIN archives') <= MaxBundles
FlowVerify == Verify({"outside"})
FlowClean == Clean({"outside"}, 0..MaxKeep, {FALSE, TRUE}) /\ tick' <= MaxTick
NextFlow == FlowPull \/ FlowPackage \/ FlowVerify \/ FlowClean
SpecFlow == Init /\ [][NextFlow]_vars

\* The outside workspace pulls, cleans and packages; the inside one verifies.
RoundPull == Pull({"outside"}, Repos, {}, TwoVersions) /\ tick' <= MaxTick
RoundClean == Clean({"outside"}, {1}, {FALSE}) /\ tick' <= MaxTick
RoundPackage ==
    /\ Package({"outside"}, GivenNames \cup {NoName})
    /\ Cardinality(DOMAIN archives') <= MaxBundles
RoundVerify == Verify({"inside"})
NextRound == RoundPull \/ RoundClean \/ RoundPackage \/ RoundVerify
SpecRound == Init /\ [][NextRound]_vars

\* One product pulled over the days, packaged, and verified inside together
\* with a bundle of the older layout.
TransferPull == Pull({"outside"}, {"data_alpha"}, {}, TwoVersions) /\ tick' <= MaxTick
TransferDay == NextDay
TransferPackage ==
    /\ Package({"outside"}, GivenNames \cup {NoName})
    /\ Cardinality(DOMAIN archives') <= MaxBundles
TransferLegacy == ReceiveLegacyBundle("outside", "data_alpha", Hash1, Commit1)
TransferVerify == Verify({"inside"})
NextTransfer ==
    TransferPull \/ TransferDay \/ TransferPackage \/ TransferLegacy \/ TransferVerify
SpecTransfer == Init /\ [][NextTransfer]_vars

\* An archive that package_transfer did not make and that holds no
\* _transfer_manifest.yaml, brought into transfers/.
ForeignName == <<"x">>
ReceiveForeignBundle(e, repo, dvc_hash) ==
    /\ <<e, ForeignName>> \notin DOMAIN archives
    /\ archives' = Put(archives, <<e, ForeignName>>,
            [members |-> << [repo |-> repo,
                             version |-> VersionStr(dvc_hash, DateStr(day)),
                             dir |-> Dir(0, {[under |-> "final", bytes |-> dvc_hash]},
                                         <<>>)] >>])
    /\ out' = [op |-> "receive", enclave |-> e]
    /\ UNCHANGED <<day, tick, manifest, staging, downloads, data, unpacked>>
    /\ UNCHANGED <<importVars, registryVars, running>>

\* Bundles made outside, unpacked or not, and verified into a workspace that
\* may have no manifest, with a move that may fail.
InitBundle ==
    /\ day = 1
    /\ tick = 0
    /\ \E E \in {{"outside"}, Enclaves} : manifest = [e \in E |-> InitManifest(e)]
    /\ staging = [e \in Enclaves |-> {}]
    /\ downloads = [e \in Enclaves |-> NoDir]
    /\ data = [e \in Enclaves |-> <<>>]
    /\ archives = <<>>
    /\ unpacked = <<>>
    /\ running = <<>>
    /\ out = [op |-> "init"]
    /\ project = ValidProject
    /\ txn = NewTransaction
    /\ InitRegistry
BundlePull ==
    Pull({"outside"}, Repos, {}, {Served(TRUE, Hash1, Commit1)}) /\ tick' <= MaxEntries
BundlePackage ==
    /\ Package(Enclaves, GivenNames)
    /\ Cardinality(DOMAIN archives') <= MaxBundles
BundleUnpack ==
    /\ \E bundle \in DOMAIN archives : UnpackTransfer(bundle)
    /\ UNCHANGED <<importVars, registryVars, running>>
BundleVerify ==
    /\ \E e \in {"inside"}, fail_at \in 0..MaxEntries :
        \/ \E bundle \in DOMAIN archives : VerifyTransfer(e, "archive", bundle, fail_at)
        \/ \E bundle \in DOMAIN unpacked : VerifyTransfer(e, "dir", bundle, fail_at)
    /\ UNCHANGED <<importVars, registryVars, running>>
NextBundle ==
    \/ BundlePull
    \/ BundlePackage
    \/ ReceiveForeignBundle("outside", "data_alpha", Hash1)
    \/ BundleUnpack
    \/ BundleVerify
SpecBundle == InitBundle /\ [][NextBundle]_vars

\* enclave_manifest.yaml is removed from a workspace, or was never written
RemoveManifest(e) ==
    /\ e \in DOMAIN manifest
    /\ manifest' = Without(manifest, {e})
    /\ out' = [op |-> "remove_manifest", enclave |-> e]
    /\ UNCHANGED <<day, tick, staging, downloads, data, archives, unpacked>>
    /\ UNCHANGED <<importVars, registryVars, running>>

\* One workspace holding both layouts and staging clones, with or without
\* its manifest, cleaned in full or staging only.
CleanPull ==
    /\ Pull({"outside"}, Repos, {},
            {Served(TRUE, Hash1, Commit1), Failure("dvc_fail")})
    /\ tick' <= MaxTick
CleanPackage ==
    /\ Package({"outside"}, GivenNames)
    /\ Cardinality(DOMAIN archives') <= MaxBundles
CleanClean == Clean({"outside"}, {1}, {FALSE, TRUE}) /\ tick' <= MaxTick
NextClean ==
    \/ CleanPull
    \/ CleanPackage
    \/ Verify({"outside"})
    \/ RemoveManifest("outside")
    \/ CleanClean
SpecClean == Init /\ [][NextClean]_vars

\* Imports into a project directory that is a project, a data product, or
\* no mintd project at all; every result is recorded in the transaction.
InitImport ==
    /\ InitEnclaves
    /\ project \in {ValidProject, [ValidProject EXCEPT !.type = "data"],
                    [ValidProject EXCEPT !.exists = FALSE]}
    /\ txn = NewTransaction
    /\ InitRegistry
Import ==
    \E product_name \in Products, stage \in {NoStage, "final"},
       path \in {NoPath, <<"r", "a", "w">>}, env \in ImportEnvs :
        ImportDataProduct(product_name, stage, path, NoRev, env)
RecordSuccess ==
    /\ out.op = "import" /\ ~out.raised /\ out.result.success
    /\ AddSuccess(out.result)
RecordFailure ==
    /\ out.op = "import" /\ ~out.raised /\ ~out.result.success
    /\ AddFailure(out.result)
NextImport == Import \/ RecordSuccess \/ RecordFailure \/ ReadSummary
SpecImport == InitImport /\ [][NextImport]_vars

\* The dependencies of a project: `mintd data import` commands and direct
\* calls of import_data_product, of both products, by stage, by path or by
\* neither, at the head revision or at a given one.
GivenRevs == {NoRev, "v2"}
DepsCommand ==
    \E product_name \in Products, stage \in {NoStage, "final"},
       path \in {NoPath, <<"r", "a", "w">>}, rev \in GivenRevs,
       env \in ImportEnvs, env2 \in {"ok", "registry_fail"} :
        DataImport(product_name, stage, path, rev, env, env2)
DepsCall ==
    \E product_name \in Products, stage \in {NoStage, "final"},
       path \in {NoPath, <<"r", "a", "w">>}, rev \in GivenRevs,
       env \in ImportEnvs :
        ImportDataProduct(product_name, stage, path, rev, env)
NextDeps == DepsCommand \/ DepsCall
SpecDeps == Init /\ [][NextDeps]_vars

\* A multi-product import that snapshots its transaction: imports by default
\* that succeed or fail in dvc, each result recorded, and the state saved,
\* loaded, cleaned up, or cut short by a kill, at any point.
SnapshotImport ==
    \E product_name \in Products, env \in {"ok", "dvc_fail"} :
        ImportDataProduct(product_name, NoStage, NoPath, NoRev, env)
SnapshotLoad == \E fresh \in BOOLEAN : LoadState(fresh)
NextSnapshot ==
    \/ SnapshotImport
    \/ RecordSuccess
    \/ RecordFailure
    \/ SaveState
    \/ InterruptSave
    \/ SnapshotLoad
    \/ CleanupState
SpecSnapshot == Init /\ [][NextSnapshot]_vars

\* A transaction with cleanup callbacks: imports that succeed, fail in dvc
\* or cannot write the descriptor, each result recorded; callbacks are
\* registered, the state saved and loaded, and rollback called, at any point.
RollbackImport ==
    \E env \in {"ok", "dvc_fail", "meta_fail"} :
        ImportDataProduct(<<"d", "a", "t", "a", "_", "a">>, NoStage, NoPath, NoRev, env)
RollbackRegister == \E action \in Callbacks : AddRollbackAction(action)
NextRollback ==
    \/ RollbackImport
    \/ RecordSuccess
    \/ RecordFailure
    \/ RollbackRegister
    \/ SaveState
    \/ SnapshotLoad
    \/ Rollback
SpecRollback == Init /\ [][NextRollback]_vars

\* The owner edits the descriptor and runs `registry update`, for real or
\* as a dry run, as the seconds pass.
Update ==
    \E project_name \in ProjectNames, dry_run \in BOOLEAN, env \in UpdateEnvs :
        UpdateProject(project_name, descriptor, dry_run, env)
Edit == \E version \in Versions, description \in Descriptions :
            EditDescriptor(version, description)
NextRegistry == Update \/ Edit \/ Second
SpecRegistry == Init /\ [][NextRegistry]_vars

\* Updates that are merged: the owner edits version and sections of the
\* descriptor, one of the merged sections ("storage") and one that is not
\* ("status"); updates run for real, pull requests are merged, seconds pass.
MergeEdit ==
    \/ \E version \in Versions : EditDescriptor(version, "absent")
    \/ \E key \in {"status", "storage"}, present \in BOOLEAN : EditSection(key, present)
MergeUpdate ==
    \E env \in {"ok", "pr_fail"} : UpdateProject("alpha", descriptor, FALSE, env)
MergeAccept == \E pr \in registry.prs : MergePullRequest(pr)
NextMerge == MergeEdit \/ MergeUpdate \/ MergeAccept \/ Second
SpecMerge == Init /\ [][NextMerge]_vars

\* Projects created with --register while the registry, the project's
\* metadata.json and the home directory are in any state, syncs of the
\* pending registrations in any order, and the clock.
Orders(S) == {items \in [1..Cardinality(S) -> S] :
                 \A i, j \in 1..Cardinality(S) : items[i] = items[j] => i = j}
PendingCreate ==
    \E full_name \in ProjectNames, meta \in MetadataStates, env \in UpdateEnvs,
       home \in {"ok", "unwritable"} :
        RegisterProject(full_name, meta, env, home)
PendingSync ==
    \E items \in Orders(DOMAIN pending), envs \in [DOMAIN pending -> UpdateEnvs] :
        Sync(items, envs)
NextPending == PendingCreate \/ PendingSync \/ Second
SpecPending == Init /\ [][NextPending]_vars

\* Every operation of the registry client, against a registry that answers
\* or fails at any step, while the owner edits the version of the descriptor.
TempRegister ==
    \E full_name \in ProjectNames, env \in UpdateEnvs :
        RegisterProject(full_name, "valid", env, "ok")
TempStatus ==
    \E project_name \in ProjectNames, env \in QueryEnvs :
        CheckRegistrationStatus(project_name, env)
TempQuery ==
    \E product_name \in ProjectNames, env \in QueryEnvs :
        QueryDataProduct(product_name, env)
TempList == \E env \in QueryEnvs : ListDataProducts(env)
TempUpdate ==
    \E project_name \in ProjectNames, dry_run \in BOOLEAN, env \in UpdateEnvs :
        UpdateProject(project_name, descriptor, dry_run, env)
TempEdit == \E version \in Versions : EditDescriptor(version, "absent")
NextTemp ==
    TempRegister \/ TempStatus \/ TempQuery \/ TempList \/ TempUpdate \/ TempEdit
SpecTemp == Init /\ [][NextTemp]_vars

\* Two processes in the outside workspace, each running pulls of one repo
\* and cleans, a step at a time in any order.
RaceBeginPull ==
    /\ \E p \in Procs, target \in Repos : BeginPull(p, "outside", target)
    /\ UNCHANGED <<importVars, registryVars>>
RaceFinishPull ==
    /\ \E p \in Procs, o \in {Served(TRUE, Hash1, Commit1), Failure("dvc_fail")} :
            FinishPull(p, <<o>>)
    /\ UNCHANGED <<importVars, registryVars>>
RaceBeginClean ==
    /\ \E p \in Procs : BeginClean(p, "outside", 1)
    /\ UNCHANGED <<importVars, registryVars>>
RaceFinishClean ==
    /\ \E p \in Procs : FinishClean(p)
    /\ UNCHANGED <<importVars, registryVars>>
NextRace == RaceBeginPull \/ RaceFinishPull \/ RaceBeginClean \/ RaceFinishClean
SpecRace == Init /\ [][NextRace]_vars

(***************************************************************************)
(* Claims.                                                                 *)
(***************************************************************************)
SameKey(a, b) == a.repo = b.repo /\ a.dvc_hash = b.dvc_hash

\* the index of the record with the key of k, 0 when there is none
IndexOf(records, k) ==
    IF \E i \in 1..Len(records) : SameKey(records[i], k)
    THEN CHOOSE i \in 1..Len(records) : SameKey(records[i], k)
    ELSE 0

C1_OnePerKey ==
    \A e \in Enclaves : \A i, j \in 1..Len(manifest[e].downloaded) :
        SameKey(manifest[e].downloaded[i], manifest[e].downloaded[j]) => i = j

C1_PullStep ==
    (out'.op = "pull" /\ ~out'.raised) =>
        LET e == out'.enclave
            old == manifest[e].downloaded
            new == manifest'[e].downloaded
            keys == {out'.served[k] : k \in 1..Len(out'.served)}
            fresh == {k \in keys : IndexOf(old, k) = 0}
        IN  /\ Len(new) = Len(old) + Cardinality(fresh)
            /\ \A i \in 1..Len(old) :
                    /\ SameKey(new[i], old[i])
                    /\ (\A k \in keys : ~SameKey(k, old[i])) => new[i] = old[i]
            /\ \A k \in keys :
                    LET i == IndexOf(new, k)
                    IN  /\ i # 0
                        /\ new[i].local_path =
                              [base |-> "data/downloads", repo |-> k.repo,
                               name |-> SubSeq(k.dvc_hash, 1, 7) \o <<"-">>
                                            \o DateStr(day')]
                        /\ SubSeq(new[i].downloaded_at, 1, 10) = DateStr(day')
                        /\ IndexOf(old, k) # 0 => i = IndexOf(old, k)

\* C1: the downloaded list holds at most one DownloadRecord per (repo,
\* content hash), and a pull of a key that has a record updates that record's
\* downloaded_at and local_path in its place, to the version directory of
\* this pull, without appending and without touching the other records.
C1_IdempotentUpsert == []C1_OnePerKey /\ [][C1_PullStep]_vars

\* a record pulled first, pulled again on a later day, with another record
\* appended in between
C1_Witness ==
    /\ out.op = "pull" /\ ~out.raised
    /\ Len(manifest["outside"].downloaded) = 2
    /\ SubSeq(manifest["outside"].downloaded[1].downloaded_at, 1, 10) = DateStr(2)
    /\ SubSeq(manifest["outside"].downloaded[2].downloaded_at, 1, 10) = DateStr(1)

\* C9: in a pull of all approved products, every repo that the registry,
\* git and dvc serve is pulled and its DownloadRecord is in the manifest
\* afterwards, whatever happens to the other repos.
C9_BatchContinues ==
    [][ (out'.op = "pull" /\ out'.target = "--all") =>
            \A k \in 1..Len(out'.served) :
                out'.served[k].ok =>
                    IndexOf(manifest'[out'.enclave].downloaded, out'.served[k]) # 0
      ]_vars

Triples(records) ==
    {<<records[i].repo, records[i].dvc_hash, records[i].git_commit>> :
        i \in 1..Len(records)}

\* C2: a bundle packaged from the DownloadRecords D of a workspace and
\* verified at once in a workspace with nothing transferred yields
\* TransferRecords with the (repo, hash, revision) triples of D, and under
\* data/<repo>/<version>/ the content of each record's version directory.
C2_RoundTrip ==
    [][ ( /\ out.op = "package" /\ ~out.raised
          /\ out'.op = "verify" /\ out'.bundle = out.returned
          /\ manifest[out'.enclave].transferred = <<>>
          /\ data[out'.enclave] = <<>> ) =>
            LET src == out.enclave
                dst == out'.enclave
                D == manifest[src].downloaded
            IN  /\ Triples(manifest'[dst].transferred) = Triples(D)
                /\ \A i \in 1..Len(D) :
                        LET from == LookupDir(downloads[src], data[src], D[i].local_path)
                            to == LookupDir(downloads'[dst], data'[dst],
                                            [base |-> "data", repo |-> D[i].repo,
                                             name |-> D[i].local_path.name])
                        IN  from.exists /\ to.exists /\ Content(to) = Content(from)
      ]_vars

\* the k most recently modified sub-directories of dir
Newest(dir, k) ==
    {v \in DOMAIN dir.subs :
        Cardinality({w \in DOMAIN dir.subs :
                        dir.subs[w].mtime > dir.subs[v].mtime}) < k}

OnDisk(e, path) == LookupDir(downloads[e], data[e], path).exists
OnDiskAfter(e, path) == LookupDir(downloads'[e], data'[e], path).exists

\* the elements of seq at the indices in keep, in their order
Pick(seq, keep) ==
    [i \in 1..Cardinality(keep) |->
        seq[CHOOSE a \in keep : Cardinality({b \in keep : b < a}) = i - 1]]

IsSubsequence(small, big) ==
    \E keep \in SUBSET (1..Len(big)) : small = Pick(big, keep)

C3_Section(e, old, new) ==
    /\ IsSubsequence(new, old)
    /\ \A i \in 1..Len(old) :
          OnDiskAfter(e, old[i].local_path) => \E j \in 1..Len(new) : new[j] = old[i]
    /\ \A j \in 1..Len(new) :
          ~(OnDisk(e, new[j].local_path) /\ ~OnDiskAfter(e, new[j].local_path))

\* C3: clean_enclave(keep_recent = k) without staging-only leaves of every
\* repo, downloaded or transferred, exactly its min(k, n) most recently
\* modified version directories, and leaves in both manifest sections the
\* entries of the versions retained and none of the versions deleted.
C3_RetentionBound ==
    [][ (out'.op = "clean" /\ ~out'.staging_only) =>
            LET e == out'.enclave
                k == out'.keep_recent
                dl == IF downloads[e].exists THEN downloads[e].subs ELSE <<>>
                dlAfter == IF downloads'[e].exists THEN downloads'[e].subs ELSE <<>>
                versions(after, r) ==
                    IF r \in DOMAIN after THEN DOMAIN after[r].subs ELSE {}
            IN  /\ \A r \in DOMAIN dl : versions(dlAfter, r) = Newest(dl[r], k)
                /\ \A r \in DOMAIN data[e] :
                        versions(data'[e], r) = Newest(data[e][r], k)
                /\ C3_Section(e, manifest[e].downloaded, manifest'[e].downloaded)
                /\ C3_Section(e, manifest[e].transferred, manifest'[e].transferred)
      ]_vars

DateOf(stamp) == SubSeq(stamp, 1, 10)
Identifier(dvc_hash, date) == SubSeq(dvc_hash, 1, 7) \o <<"-">> \o date

C8_Records ==
    \A e \in Enclaves : \A i \in 1..Len(manifest[e].downloaded) :
        LET r == manifest[e].downloaded[i]
        IN  r.local_path.name = Identifier(r.dvc_hash, DateOf(r.downloaded_at))

C8_PullStep ==
    (out'.op = "pull" /\ ~out'.raised) =>
        LET e == out'.enclave
            old == manifest[e].downloaded
            new == manifest'[e].downloaded
        IN  \A k \in 1..Len(out'.served) :
                LET key == out'.served[k]
                    id == Identifier(key.dvc_hash, DateStr(day'))
                    i == IndexOf(old, key)
                IN  /\ new[IndexOf(new, key)].local_path.name = id
                    /\ OnDiskAfter(e, [base |-> "data/downloads",
                                       repo |-> key.repo, name |-> id])
                    /\ i # 0 =>
                        /\ (DateOf(old[i].downloaded_at) = DateStr(day'))
                                <=> (old[i].local_path.name = id)
                        /\ OnDisk(e, old[i].local_path)
                                => OnDiskAfter(e, old[i].local_path)

C8_VerifyStep ==
    out'.op = "verify" =>
        LET e == out'.enclave
            b == archives[out'.bundle].manifest
        IN  \A k \in 1..Len(b.contents) :
                b.contents[k].version_folder = <<>> =>
                    LET id == Identifier(b.contents[k].dvc_hash,
                                         DateOf(b.transfer_date))
                        j == IndexOf(manifest'[e].transferred, b.contents[k])
                    IN  /\ j # 0
                        /\ manifest'[e].transferred[j].local_path.name = id
                        /\ OnDiskAfter(e, [base |-> "data",
                                           repo |-> b.contents[k].repo, name |-> id])

\* C8: the version identifier is the first 7 characters of the content
\* hash, a hyphen and the date: pull names the version directory and the
\* record's path so, verify falls back on it with the transfer date; a pull
\* of a hash on the date of its record gives the record's identifier again,
\* a pull on another date gives another one and leaves the older directory.
C8_VersionIdentifier ==
    []C8_Records /\ [][C8_PullStep]_vars /\ [][C8_VerifyStep]_vars

\* the same content pulled on two days lies in two version directories, and
\* a bundle of the older layout was verified inside
C8_Witness ==
    /\ out.op = "verify"
    /\ out.bundle[2] = LegacyName
    /\ manifest["inside"].transferred # <<>>
    /\ downloads["outside"].exists
    /\ "data_alpha" \in DOMAIN downloads["outside"].subs
    /\ \E u, v \in DOMAIN downloads["outside"].subs["data_alpha"].subs :
          u # v /\ SubSeq(u, 1, 7) = SubSeq(v, 1, 7)

C10_OnePerKey ==
    \A e \in Enclaves : \A i, j \in 1..Len(manifest[e].transferred) :
        SameKey(manifest[e].transferred[i], manifest[e].transferred[j]) => i = j

C10_VerifyStep ==
    out'.op = "verify" =>
        LET e == out'.enclave
            b == archives[out'.bundle].manifest
            old == manifest[e].transferred
            new == manifest'[e].transferred
            keys == {[repo |-> b.contents[k].repo, dvc_hash |-> b.contents[k].dvc_hash] :
                        k \in 1..Len(b.contents)}
        IN  /\ Len(new) = Len(old) + Cardinality({k \in keys : IndexOf(old, k) = 0})
            /\ \A i \in 1..Len(old) :
                    /\ SameKey(new[i], old[i])
                    /\ (\A k \in keys : ~SameKey(k, old[i])) => new[i] = old[i]
            /\ \A x \in 1..Len(b.contents) :
                    LET c == b.contents[x]
                        i == IndexOf(new, c)
                    IN  /\ i # 0
                        /\ new[i].transfer_id = b.transfer_id
                        /\ new[i].transfer_date = DateOf(b.transfer_date)
                        /\ new[i].local_path.base = "data"
                        /\ new[i].local_path.repo = c.repo
                        /\ c.version_folder # <<>> =>
                                new[i].local_path.name = c.version_folder
                        /\ IndexOf(old, c) # 0 => i = IndexOf(old, c)

\* C10: the transferred list holds at most one TransferRecord per (repo,
\* content hash), and verify_transfer of a bundle that carries a recorded
\* key sets that record's transfer identifier, transfer date and local path
\* to the bundle's, in its place, appending only for keys without a record.
C10_TransferredUpsert == []C10_OnePerKey /\ [][C10_VerifyStep]_vars

\* a key verified from one bundle and verified again from a later bundle
\* that carries another version directory of it
C10_Witness ==
    /\ out.op = "verify"
    /\ Len(manifest["inside"].transferred) = 1
    /\ manifest["inside"].transferred[1].transfer_date = DateStr(2)
    /\ manifest["inside"].transferred[1].local_path.name
            = Identifier(manifest["inside"].transferred[1].dvc_hash, DateStr(2))
    /\ "data_alpha" \in DOMAIN data["inside"]
    /\ Cardinality(DOMAIN data["inside"]["data_alpha"].subs) = 2

\* C4: get_summary reports under "successful" the number of add_success
\* calls, under "failed" the number of add_failure calls, and under "total"
\* their sum.
C4_SummaryCounts ==
    out.op = "get_summary" =>
        /\ out.summary["successful"] = [type |-> "int", n |-> Len(txn.completed),
                                        items |-> <<>>]
        /\ out.summary["failed"] = [type |-> "int", n |-> Len(txn.failed),
                                    items |-> <<>>]
        /\ out.summary["total"] =
              [type |-> "int", n |-> Len(txn.completed) + Len(txn.failed),
               items |-> <<>>]

C6_DiffNoOp ==
    [][ ( /\ out'.op = "update" /\ out'.env # "clone_fail"
          /\ out'.project_name \in DOMAIN registry.main
          /\ descriptor = registry.main[out'.project_name] ) =>
            /\ out'.steps = <<"clone">>
            /\ out'.raised = ""
            /\ out'.returned.project = ""
            /\ registry' = registry
      ]_vars

\* a descriptor edited, updated through a pull request, edited back to the
\* catalog's entry and updated again, for real
C6_Witness ==
    /\ out.op = "update" /\ ~out.dry_run /\ out.env = "ok"
    /\ out.project_name = "alpha"
    /\ descriptor = registry.main["alpha"]
    /\ out.steps = <<"clone">>
    /\ registry.prs # {}

\* The bundle directory a verify step reads, as it is before the step: the
\* archive unpacked, or the directory given.
BundleDir ==
    IF out'.kind = "archive" THEN Unpacked(out'.bundle, tick + 1)
    ELSE unpacked[out'.bundle]

\* a verify step that got as far as the entry list
VerifyStep ==
    /\ out'.op = "verify"
    /\ HasManifest(BundleDir)
    /\ out'.enclave \in DOMAIN manifest

\* the directory of a bundle that holds an entry's data, NoDir when the
\* bundle has none: <repo>/<version_folder>/, or <repo>/ for an entry of the
\* older layout, which names no version_folder
EntryDir(tdir, content) ==
    IF content.repo \notin DOMAIN tdir THEN NoDir
    ELSE IF content.version_folder = <<>> THEN tdir[content.repo]
    ELSE IF content.version_folder \in DOMAIN tdir[content.repo].subs
    THEN tdir[content.repo].subs[content.version_folder]
    ELSE NoDir

\* C11: a TransferRecord is there only for data that was moved: a verify
\* step leaves the record of a bundle entry as it was (or absent) when the
\* bundle does not hold the entry's data, and for an entry whose data it
\* holds the recorded local path holds that data afterwards.
C11_RecordOnlyIfMoved ==
    [][ (VerifyStep /\ ~out'.raised) =>
        LET e == out'.enclave
            old == manifest[e].transferred
            new == manifest'[e].transferred
        IN  \A i \in 1..Len(BundleDir.manifest.contents) :
              LET c == BundleDir.manifest.contents[i]
                  src == EntryDir(BundleDir.tdir, c)
                  before == FirstMatch(old, c.repo, c.dvc_hash)
                  after == FirstMatch(new, c.repo, c.dvc_hash)
              IN  IF ~src.exists
                  THEN /\ after = before
                       /\ before # 0 => new[after] = old[before]
                       /\ Len(new) = Len(old)
                  ELSE /\ after # 0
                       /\ Content(LookupDir(downloads'[e], data'[e],
                                            new[after].local_path))
                            = Content(src)
      ]_vars

\* C12: package_transfer reads: a package step, raising or not, leaves the
\* manifests, the staging clones, both download layouts and the unpacked
\* directories as they were, and changes transfers/ by at most the archive
\* it returns.
C12_PackageReadOnly ==
    [][ out'.op = "package" =>
        /\ manifest' = manifest
        /\ staging' = staging
        /\ downloads' = downloads
        /\ data' = data
        /\ unpacked' = unpacked
        /\ IF out'.raised THEN archives' = archives
           ELSE /\ DOMAIN archives' = (DOMAIN archives) \cup {out'.returned}
                /\ \A b \in DOMAIN archives :
                      b # out'.returned => archives'[b] = archives[b]
      ]_vars

\* a bundle was packaged from two DownloadRecords: the manifest still lists
\* both, with their directories on disk
C12_Witness ==
    /\ out.op = "package" /\ ~out.raised
    /\ Len(archives[out.returned].manifest.contents) = 2
    /\ Len(manifest["outside"].downloaded) = 2
    /\ \A i \in 1..2 : OnDisk("outside", manifest["outside"].downloaded[i].local_path)

\* the files under a workspace's data/, whatever the modification times
DataContent(dat) == [r \in DOMAIN dat |-> Content(dat[r])]

\* C16: verifying a bundle again is tolerated: a verify step that repeats
\* the successful verify step before it (the same archive or the same
\* unpacked directory into the same workspace) succeeds and leaves the
\* TransferRecords and the data under data/ as they were.
C16_ReverifyTolerated ==
    [][ ( /\ out.op = "verify" /\ ~out.raised
          /\ out'.op = "verify" /\ out'.fail_at = 0
          /\ out'.enclave = out.enclave
          /\ out'.kind = out.kind
          /\ out'.bundle = out.bundle ) =>
        /\ ~out'.raised
        /\ manifest'[out'.enclave].transferred = manifest[out'.enclave].transferred
        /\ DataContent(data'[out'.enclave]) = DataContent(data[out'.enclave])
      ]_vars

\* C17: the working directory of an archive's verification is gone after the
\* call: a verify step on an archive whose tmp_ directory was not there
\* before leaves none behind, whether it returns or raises.
C17_TempDirRemoved ==
    [][ ( /\ out'.op = "verify" /\ out'.kind = "archive"
          /\ <<out'.bundle[1], TempName(out'.bundle[2])>> \notin DOMAIN unpacked ) =>
        <<out'.bundle[1], TempName(out'.bundle[2])>> \notin DOMAIN unpacked'
      ]_vars

\* C18: when a move fails partway, what was done before stays done: after a
\* verify step that raised in the entry list, every entry before the failed
\* one whose data the bundle held has its data under data/<repo>/<version>/
\* and its TransferRecord in the manifest on disk.
C18_PartialMoveKept ==
    [][ (VerifyStep /\ out'.raised) =>
        LET e == out'.enclave
            contents == BundleDir.manifest.contents
        IN  \A i \in 1..Len(contents) :
              LET c == contents[i]
                  src == EntryDir(BundleDir.tdir, c)
                  k == FirstMatch(manifest'[e].transferred, c.repo, c.dvc_hash)
              IN  (i < out'.fail_at /\ src.exists) =>
                    /\ Content(LookupDir(downloads'[e], data'[e],
                                         DataPath(c.repo, c.version_folder)))
                         = Content(src)
                    /\ k # 0
                    /\ manifest'[e].transferred[k].local_path
                         = DataPath(c.repo, c.version_folder)
      ]_vars

\* C19: a bundle without _transfer_manifest.yaml is refused before anything
\* moves: the verify step raises the manifest-missing error and leaves data/,
\* data/downloads/ and the enclave manifests as they were.
C19_ManifestMissing ==
    [][ (out'.op = "verify" /\ ~HasManifest(BundleDir)) =>
        /\ out'.error = "Transfer manifest not found"
        /\ data' = data
        /\ downloads' = downloads
        /\ manifest' = manifest
      ]_vars

\* a workspace that holds transferred data was given a bundle without a
\* transfer manifest
C19_Witness ==
    /\ out.op = "verify" /\ out.error = "Transfer manifest not found"
    /\ out.enclave \in DOMAIN manifest
    /\ manifest[out.enclave].transferred # <<>>
    /\ data[out.enclave] # <<>>

\* C20: staging is always emptied: after a clean step the workspace has no
\* staging clone, whether or not the call was staging-only and whether or
\* not the workspace has a manifest; a staging-only clean step leaves both
\* download layouts and the manifests as they were.
C20_StagingAlwaysCleaned ==
    [][ out'.op = "clean" =>
        /\ staging'[out'.enclave] = {}
        /\ out'.staging_only =>
              /\ downloads' = downloads
              /\ data' = data
              /\ manifest' = manifest
      ]_vars

\* a workspace without a manifest, holding versions in both layouts, has
\* just had its staging clones removed
C20_Witness ==
    /\ out.op = "clean"
    /\ out.enclave \notin DOMAIN manifest
    /\ staging[out.enclave] = {}
    /\ downloads[out.enclave].exists /\ downloads[out.enclave].subs # <<>>
    /\ data[out.enclave] # <<>>


\* Whether the command reported in o wrote a dependency record, and how many
\* timestamps before the end of the command its last write took
WroteRecord(o) ==
    \/ o.op = "import" /\ ~o.raised /\ o.result.success /\ o.warnings = {}
    \/ o.op = "data import" /\ o.updated > 0
StampsBack(o) == IF o.op = "data import" /\ o.updated = 1 THEN 1 ELSE 0
KeyHits(deps, result) ==
    {i \in 1..Len(deps) : /\ deps[i].source = result.product_name
                          /\ deps[i].local_path = result.local_path}

\* C13: data_dependencies never holds two records with the same source and
\* local path; an import that writes a record whose key is already there
\* leaves the list as long as it was, puts the new provenance (commit, dvc
\* file, time of the last write) at the position of the old record and
\* leaves every other record as it was; with a new key the record is appended.
C13_DependencyUpsert ==
    [][/\ \A i, j \in 1..Len(project'.deps) :
            /\ project'.deps[i].source = project'.deps[j].source
            /\ project'.deps[i].local_path = project'.deps[j].local_path
            => i = j
       /\ ~WroteRecord(out') => project'.deps = project.deps
       /\ WroteRecord(out') =>
            LET hits == KeyHits(project.deps, out'.result)
                fresh == [source |-> out'.result.product_name,
                          source_url |-> out'.result.product_name,
                          stage |-> "", path |-> "",
                          local_path |-> out'.result.local_path,
                          dvc_file |-> out'.result.dvc_file,
                          imported_at |-> IsoFormat(day', tick' - StampsBack(out')),
                          source_commit |-> out'.result.source_commit]
            IN  IF hits = {}
                THEN project'.deps = Append(project.deps, fresh)
                ELSE /\ Len(project'.deps) = Len(project.deps)
                     /\ \A i \in 1..Len(project.deps) :
                            project'.deps[i] = IF i \in hits THEN fresh
                                               ELSE project.deps[i]]_vars

\* the command wrote twice, and its record stands first, before an older
\* record of another key, at another commit than HEAD
C13_Witness ==
    /\ out.op = "data import" /\ out.updated = 2
    /\ Len(project.deps) = 2
    /\ KeyHits(project.deps, out.result) = {1}
    /\ project.deps[1].imported_at = IsoFormat(day, tick)
    /\ project.deps[1].source_commit = "v2"
    /\ project.deps[2].imported_at = IsoFormat(day, 2)


\* C14: load_state on a new ImportTransaction right after save_state
\* returns True with completed and failed equal to the lists that were
\* saved, in their order; after cleanup_state the snapshot is gone; and a
\* load_state that finds no snapshot returns False, leaves the lists of the
\* transaction as they were and the project directory alone.
C14_SnapshotRoundTrip ==
    [][/\ out.op = "save_state" /\ out'.op = "load_state" /\ out'.fresh
            => /\ out'.returned
               /\ txn'.completed = out.completed
               /\ txn'.failed = out.failed
       /\ out'.op = "cleanup_state" => ~project'.state_file.exists
       /\ out'.op = "load_state" /\ ~project.state_file.exists
            => /\ ~out'.returned
               /\ txn' = IF out'.fresh THEN NewTransaction ELSE txn
               /\ project' = project]_vars

\* a new transaction has loaded a snapshot holding a success and a failure
C14_Witness ==
    /\ out.op = "load_state" /\ out.fresh /\ out.returned
    /\ Len(txn.completed) >= 1 /\ Len(txn.failed) >= 1
    /\ txn.completed[1].success /\ ~txn.failed[1].success
    /\ txn.failed[1].dvc_file = NoFile
    /\ project.state_file.exists


\* C15: a create_project whose registration fails does not raise, returns
\* no registration URL and leaves a pending registration for the project;
\* `registry sync` removes a pending registration only when it registered
\* the project, and keeps every one whose registration failed.
C15_FailedRegistrationPending ==
    [][/\ out'.op = "create" /\ out'.registration_url = NoBranch
            => /\ ~out'.raised
               /\ out'.full_name \in DOMAIN pending'
       /\ out'.op = "sync"
            => /\ (DOMAIN pending) \ (DOMAIN pending') = out'.successful
               /\ \A name \in out'.successful :
                      \E pr \in registry'.prs : pr.head = RegisterBranch(name)
               /\ \A name \in out'.failed : /\ name \in DOMAIN pending'
                                            /\ pending'[name] = pending[name]]_vars


AllOnDisk(e, section) ==
    \A i \in 1..Len(section) : OnDisk(e, section[i].local_path)
C21_Section(e, old, new) ==
    /\ IsSubsequence(new, old)
    /\ \A j \in 1..Len(new) : OnDiskAfter(e, new[j].local_path)
    /\ \A i \in 1..Len(old) :
          (\A j \in 1..Len(new) : new[j] # old[i])
              => ~OnDiskAfter(e, old[i].local_path)

\* C21: when every DownloadRecord and TransferRecord has its local path on
\* disk before a clean_enclave that is not staging-only, every record left
\* in the manifest after it has its local path on disk, and every record
\* that left the manifest had the directory at its own local path deleted
\* by this clean.
C21_CleanConsistent ==
    [][ (/\ out'.op = "clean" /\ ~out'.staging_only
         /\ AllOnDisk(out'.enclave, manifest[out'.enclave].downloaded)
         /\ AllOnDisk(out'.enclave, manifest[out'.enclave].transferred)) =>
            /\ C21_Section(out'.enclave, manifest[out'.enclave].downloaded,
                           manifest'[out'.enclave].downloaded)
            /\ C21_Section(out'.enclave, manifest[out'.enclave].transferred,
                           manifest'[out'.enclave].transferred)
      ]_vars


\* C22: an import_data_product whose dvc import succeeded and whose write
\* of metadata.json failed returns, without raising, a result with
\* success = True, the .dvc file and the local path; the imported directory
\* is in the project, nothing that was there is removed, and no cleanup
\* callback is called or registered.
C22_DescriptorFailureKeepsData ==
    [][ (/\ out'.op = "import" /\ out'.env = "meta_fail"
         /\ ValidateProjectDirectory(project).kind = "none"
         /\ ~(out'.stage # NoStage /\ out'.path # NoPath)) =>
            LET dest == DefaultDest(out'.product_name,
                                    IF out'.stage = NoStage /\ out'.path = NoPath
                                    THEN "final" ELSE out'.stage,
                                    out'.path)
            IN  /\ ~out'.raised
                /\ out'.result.success
                /\ out'.result.dvc_file = DvcFile(dest)
                /\ out'.result.local_path = dest
                /\ dest \in project'.dirs
                /\ project.dirs \subseteq project'.dirs
                /\ project'.undone = project.undone
                /\ txn' = txn
      ]_vars

\* a successful import whose descriptor write failed, in a transaction
\* with a callback registered and none called
C22_Witness ==
    /\ out.op = "import" /\ out.env = "meta_fail" /\ out.result.success
    /\ out.warnings # {}
    /\ ~project.has_deps
    /\ project.dirs # {}
    /\ txn.rollback_actions # <<>>
    /\ project.undone = <<>>

\* C23: rollback calls every registered callback once, the last registered
\* first, goes on after a callback that raises, and does not raise itself;
\* add_success, add_failure, save_state and load_state call no callback
\* and leave the list of registered callbacks as it is.
C23_RollbackReverseOnly ==
    [][/\ out'.op = "rollback" =>
            /\ ~out'.raised
            /\ Len(project'.undone) = Len(project.undone) + Len(txn.rollback_actions)
            /\ \A i \in 1..Len(txn.rollback_actions) :
                  project'.undone[Len(project.undone) + i] =
                      txn.rollback_actions[Len(txn.rollback_actions) + 1 - i]
            /\ SubSeq(project'.undone, 1, Len(project.undone)) = project.undone
       /\ out'.op \in {"add_success", "add_failure", "save_state", "load_state"} =>
            /\ project'.undone = project.undone
            /\ txn'.rollback_actions =
                  IF out'.op = "load_state" /\ out'.fresh THEN <<>>
                  ELSE txn.rollback_actions
      ]_vars

\* rollback has just called two callbacks, the raising one first, after a
\* failure was recorded
C23_Witness ==
    /\ out.op = "rollback"
    /\ Len(txn.rollback_actions) = 2
    /\ txn.rollback_actions[2].raises /\ ~txn.rollback_actions[1].raises
    /\ project.undone = <<txn.rollback_actions[2], txn.rollback_actions[1]>>
    /\ out.warnings = <<"boom">>
    /\ txn.failed # <<>>


\* C24: a dry-run update_project, whatever the local descriptor, the
\* registry entry and the outcome of git, leaves the registry as it is: no
\* branch, no commit or push, no pull request; in its clone it does nothing
\* after the clone itself; it returns None; and when the entry was fetched
\* the changes it printed are the differences of entry and descriptor.
C24_DryRunWritesNothing ==
    [][ (out'.op = "update" /\ out'.dry_run) =>
            /\ registry' = registry
            /\ out'.steps \in {<<>>, <<"clone">>}
            /\ out'.returned = NoBranch
            /\ (out'.env # "clone_fail" /\ out'.project_name \in DOMAIN registry.main)
                  => /\ out'.raised = ""
                     /\ out'.changes =
                           ComputeMetadataDiff(registry.main[out'.project_name],
                                               descriptor, <<>>)
      ]_vars

\* a dry run that printed changes, with git and gh in working order
C24_Witness ==
    /\ out.op = "update" /\ out.dry_run /\ out.env = "ok"
    /\ out.changes # {}
    /\ out.steps = <<"clone">>
    /\ descriptor # registry.main[out.project_name]


\* the value at a dotted path of an entry, None where the path leads nowhere
RECURSIVE ValueAt(_, _)
ValueAt(d, path) ==
    IF Len(path) = 1 THEN Get(d, path[1])
    ELSE IF Get(d, path[1]).type = "dict" THEN ValueAt(Get(d, path[1]).d, Tail(path))
    ELSE NoneValue

\* equal sections, but for the status.last_updated that every update sets
SameSection(key, a, b) ==
    IF key = "status" /\ a.type = "dict" /\ b.type = "dict"
    THEN Without(a.d, {"last_updated"}) = Without(b.d, {"last_updated"})
    ELSE a = b

Pushed(o) == o.op = "update" /\ \E i \in DOMAIN o.steps : o.steps[i] = "push"

\* C25: the entry an update_project pushes has, for every top-level section
\* of the local descriptor, the local value, and for every section of the
\* remote entry that the descriptor lacks, the remote value (the
\* last_updated stamp aside); and every change leaf it lists has its new
\* value at its path in the pushed entry.
C25_MergedEntry ==
    [][ Pushed(out') =>
            LET existing == registry.main[out'.project_name]
                written == registry'.branches[
                               BranchName(out'.project_name, day, tick)].entry
            IN  /\ \A key \in DOMAIN descriptor :
                      /\ key \in DOMAIN written
                      /\ SameSection(key, written[key], descriptor[key])
                /\ \A key \in (DOMAIN existing) \ (DOMAIN descriptor) :
                      /\ key \in DOMAIN written
                      /\ SameSection(key, written[key], existing[key])
                /\ \A c \in out'.changes :
                      c.key # <<"status", "last_updated">>
                          => ValueAt(written, c.key) = c.new
      ]_vars


\* C26: the change list of update_project has one leaf for each path at
\* which the entry and the descriptor differ and are not both mappings,
\* with the two values found there, and it is empty exactly when the entry
\* and the descriptor are the same structure, a key that one side lacks and
\* the other holds as null counting as a difference.
C26_DiffExact ==
    [][ (/\ out'.op = "update" /\ out'.env # "clone_fail"
         /\ out'.project_name \in DOMAIN registry.main) =>
            LET existing == registry.main[out'.project_name]
            IN  /\ \A c \in out'.changes :
                      /\ c.old # c.new
                      /\ ~(c.old.type = "dict" /\ c.new.type = "dict")
                      /\ c.old = ValueAt(existing, c.key)
                      /\ c.new = ValueAt(descriptor, c.key)
                /\ (out'.changes = {}) <=> (descriptor = existing)
      ]_vars


\* C30: when the registry's entry of a project is one that an
\* update_project pushed and that holds, for every merged section of the
\* unchanged local descriptor, the local value, a further update_project
\* with that descriptor reports no changes and leaves the registry as it
\* is: no branch, no commit, no pull request.
C30_UpdateConverges ==
    [][ (/\ out'.op = "update" /\ ~out'.dry_run /\ out'.env = "ok"
         /\ out'.project_name \in DOMAIN registry.main
         /\ \E b \in DOMAIN registry.branches :
               registry.branches[b].entry = registry.main[out'.project_name]
         /\ \A key \in (DOMAIN descriptor) \cap MergedKeys :
               /\ key \in DOMAIN registry.main[out'.project_name]
               /\ registry.main[out'.project_name][key] = descriptor[key]) =>
            /\ out'.changes = {}
            /\ out'.steps = <<"clone">>
            /\ registry' = registry
      ]_vars


\* C29: an update_project that gets as far as creating its branch uses a
\* branch name that no other update has pushed a branch under, so that it
\* neither works on nor pushes to another update's branch.
C29_UniqueBranch ==
    [][ (/\ out'.op = "update"
         /\ \E i \in DOMAIN out'.steps : out'.steps[i] = "branch") =>
            BranchName(out'.project_name, day, tick) \notin DOMAIN registry.branches
      ]_vars

\* C27: every operation of the registry client (register_project,
\* check_registration_status, query_data_product, list_data_products,
\* update_project) clones into a temporary directory that did not exist
\* before, and that directory is gone when the operation has returned or
\* raised, whether it succeeded, found no entry, or failed in the clone; no
\* operation leaves a directory behind.
RegistryOps == {"create", "status", "query", "list", "update"}
C27_TempDirRemoved ==
    [][ out'.op \in RegistryOps \cup {"sync"} =>
           /\ temps' \subseteq temps
           /\ (out'.op \in RegistryOps /\ out'.temp_dir # NoTemp) =>
                  /\ out'.temp_dir \notin temps
                  /\ out'.temp_dir \notin temps'
      ]_vars
\* a query that raised in the clone, after others that found no entry and
\* that succeeded: nothing is left
C27_Witness ==
    /\ out.op = "query" /\ out.raised = "GitError" /\ out.temp_dir # NoTemp
    /\ temps = {}
    /\ Cardinality(DOMAIN registry.branches) >= 2

\* C28: the manifest is updated by read-modify-write with nothing that
\* locks it or checks it for a change: the file a pull or a clean writes
\* holds the records of the manifest as that command read it and the
\* command's own, so a record another command wrote in between is gone
\* (lost update), and a pull brings back every record it read.
Keys(m) == {<<m.downloaded[i].repo, m.downloaded[i].dvc_hash>> :
               i \in DOMAIN m.downloaded}
OwnKeys(o) ==
    IF o.op = "pull"
    THEN {<<o.served[k].repo, o.served[k].dvc_hash>> : k \in DOMAIN o.served}
    ELSE {}
C28_LostUpdate ==
    [][ \A p \in (DOMAIN running) \ (DOMAIN running') :
          LET e == running[p].enclave
              read == running[p].manifest
          IN  ~out'.raised =>
                /\ Keys(manifest'[e]) \subseteq Keys(read) \cup OwnKeys(out')
                /\ out'.op = "pull" => Keys(read) \subseteq Keys(manifest'[e])
      ]_vars
\* two pulls of different repos have both succeeded, each version is under
\* data/downloads/ and nothing was deleted, and the manifest lists one
C28_Witness ==
    /\ running = <<>>
    /\ out.op = "pull" /\ ~out.raised
    /\ tick = 2
    /\ DOMAIN downloads["outside"].subs = Repos
    /\ Len(manifest["outside"].downloaded) = 1
====
